---- MODULE Spec2Model ----
(***************************************************************************)
(* Lumen bot (src/main.py): the presence-driven single-screen controller   *)
(* and the cross-session notification throttler, over the row-oriented     *)
(* sheet store and the chat transport.                                     *)
(*                                                                         *)
(* Sheet cells are strings, as the store returns them.  A Python dict is a *)
(* function whose domain is the set of keys present.  Python None is the   *)
(* value None.  A message id is the position of the message in the         *)
(* transport's log of sent messages.                                       *)
(***************************************************************************)
EXTENDS Integers, Sequences, FiniteSets, TLC

VARIABLES
    presence,         \* sheet "presence": rows user_id, state, current_dialog_id, main_message_id, updated_at
    dialog_meta,      \* sheet "dialog_meta": rows dialog_id, u1_last_open_at, u2_last_open_at, u1_last_notify_at, u2_last_notify_at
    dialogs,          \* sheet "dialogs": rows dialog_id, user_1, user_2, created_at, status
    users,            \* sheet "users": one row per onboarded profile
    dialog_messages,  \* sheet "dialog_messages": rows dialog_id, from_user, text, created_at
    user_data,        \* context.user_data of every user (process-local session dicts)
    messages,         \* the transport: every message sent so far, by message id
    now,              \* the clock, in seconds
    last,             \* the handler or store call that ran last, with what it observed
    faulty,           \* whether the transport has failed a call so far
    pg_presence,      \* table "presence" of the SQL store (db_presence.py), keyed by user_id
    procs             \* the in-flight store calls of the interleaved specification

vars == <<presence, dialog_meta, dialogs, users, dialog_messages, user_data, messages, now, last, faulty,
          pg_presence, procs>>

-----------------------------------------------------------------------------
(* Bounds of the model *)

MaxTime == 82
MaxMsgs == 4
MaxTexts == 2
MaxScreens == 5

MaxCalls == 2

MaxFaultMsgs == 3

MaxConcMsgs == 3

MaxAppMsgs == 3

MaxDialogs == 2

\* rows of the dialogs sheet and messages in the runs that keep starting dialogs
MaxCreated == 4
MaxCreateMsgs == 6

-----------------------------------------------------------------------------
(* Program constants *)

STATE_ONBOARDING_NAME == "ONBOARDING_NAME"
STATE_ONBOARDING_AGE == "ONBOARDING_AGE"
STATE_ONBOARDING_CITY == "ONBOARDING_CITY"
STATE_ONBOARDING_ABOUT == "ONBOARDING_ABOUT"
STATE_ONBOARDING_PHOTO_MAIN == "ONBOARDING_PHOTO_MAIN"
STATE_ONBOARDING_PHOTO_EXTRA == "ONBOARDING_PHOTO_EXTRA"
STATE_ONBOARDING_GENDER == "ONBOARDING_GENDER"
STATE_ONBOARDING_LOOKING_GENDER == "ONBOARDING_LOOKING_GENDER"
STATE_ONBOARDING_INTERESTS == "ONBOARDING_INTERESTS"
STATE_ONBOARDING_LOOKING_AGE_MIN == "STATE_ONBOARDING_LOOKING_AGE_MIN"
STATE_ONBOARDING_LOOKING_AGE_MAX == "STATE_ONBOARDING_LOOKING_AGE_MAX"
STATE_RECOMMENDATION == "RECOMMENDATION"
STATE_DIALOG == "DIALOG"
STATE_DIALOGS == "DIALOGS"
STATE_EMPTY == "EMPTY"
STATE_IDLE == "IDLE"

PRESENCE_ACTIVE_SEC == 60
NOTIFY_COOLDOWN_SEC == 60
ACTIVE_WINDOW_SEC == 20

None == -1

Users == {1, 2}
\* the instants at which the clock is read
ClockValues == {0, ACTIVE_WINDOW_SEC + 1, MaxTime}

\* the clock values a timestamp can denote
Times == ClockValues
MsgIds == 1..(MaxScreens + 2)

-----------------------------------------------------------------------------
(* Strings, dicts and sheet ranges *)

\* str(n) of a Python int
str(n) == ToString(n)

StrTable == [n \in (Users \cup MsgIds \cup {0}) |-> str(n)]

\* int(s): the number a digit string denotes; None stands for ValueError
OneOf(hits) == IF hits = {} THEN None ELSE CHOOSE n \in hits : TRUE

int(s) == OneOf({n \in DOMAIN StrTable : StrTable[n] = s})

\* datetime.now(timezone.utc).isoformat() at clock value t
utc_now_iso(t) == "T" \o ToString(t)

IsoTable == [t \in Times |-> utc_now_iso(t)]

\* iso_to_dt that reads the empty string as the first instant
iso_to_dt_epoch(s) ==
    IF s = "" THEN 0
    ELSE OneOf({t \in Times : IsoTable[t] = s})

\* iso_to_dt: "" and unparsable strings give None
iso_to_dt(s) ==
    IF s = "" THEN None
    ELSE OneOf({t \in Times : IsoTable[t] = s})

EmptyDict == [k \in {} |-> None]

dict_get(d, k, default) == IF k \in DOMAIN d THEN d[k] ELSE default

dict_set(d, k, v) == [x \in (DOMAIN d) \cup {k} |-> IF x = k THEN v ELSE d[x]]

dict_pop(d, k) == [x \in (DOMAIN d) \ {k} |-> d[x]]

\* r + [""] * (n - len(r))
Pad(r, n) == r \o [i \in 1..(n - Len(r)) |-> ""]

\* values().get() leaves the trailing empty cells of a row out
LastOf(S) == IF S = {} THEN 0 ELSE CHOOSE i \in S : \A j \in S : j <= i

TrimRow(r) == SubSeq(r, 1, LastOf({i \in 1..Len(r) : r[i] # ""}))

\* values().get(range="<sheet>!A2:<col>"): the first ncols columns of every row
SheetGet(table, ncols) ==
    [i \in 1..Len(table) |-> TrimRow(SubSeq(table[i], 1, ncols))]

\* the first index of a set of row indexes, 0 when there is none
FirstOf(S) == IF S = {} THEN 0 ELSE CHOOSE i \in S : \A j \in S : i <= j

-----------------------------------------------------------------------------
(* Dialog Meta Store *)

\* for r in rows: the first row whose first cell is the key, 0 when there is none
row_of_key(rows, key) ==
    FirstOf({i \in 1..Len(rows) : rows[i] # <<>> /\ rows[i][1] = key})

meta_of_row(r) ==
    [dialog_id |-> r[1],
     u1_last_open_at |-> r[2],
     u2_last_open_at |-> r[3],
     u1_last_notify_at |-> r[4],
     u2_last_notify_at |-> r[5]]

meta_default(dialog_id) ==
    [dialog_id |-> dialog_id,
     u1_last_open_at |-> "",
     u2_last_open_at |-> "",
     u1_last_notify_at |-> "",
     u2_last_notify_at |-> ""]

meta_in_rows(rows, hit, dialog_id) ==
    IF hit # 0 THEN meta_of_row(Pad(rows[hit], 5)) ELSE meta_default(dialog_id)

meta_scan(rows, dialog_id) == meta_in_rows(rows, row_of_key(rows, dialog_id), dialog_id)

get_dialog_meta(table, dialog_id) == meta_scan(SheetGet(table, 5), dialog_id)

\* upsert_dialog_meta, the scan: the row holding the key, 0 when no row does
find_dialog_meta_row(table, dialog_id) == row_of_key(SheetGet(table, 1), dialog_id)

dialog_meta_values(meta) ==
    <<dict_get(meta, "dialog_id", ""),
      dict_get(meta, "u1_last_open_at", ""),
      dict_get(meta, "u2_last_open_at", ""),
      dict_get(meta, "u1_last_notify_at", ""),
      dict_get(meta, "u2_last_notify_at", "")>>

\* write_row that appends whatever the scan found
write_row_append(table, target_row, values) == Append(table, values)

\* the write of an upsert: update the row found, or append
write_row(table, target_row, values) ==
    IF target_row # 0
    THEN [table EXCEPT ![target_row] = values]
    ELSE Append(table, values)

upsert_dialog_meta(table, meta) ==
    write_row(table, find_dialog_meta_row(table, meta.dialog_id), dialog_meta_values(meta))

-----------------------------------------------------------------------------
(* Presence Store *)

\* for r in rows: the first row whose first cell is the number user_id
row_of_user(rows, user_id) ==
    FirstOf({i \in 1..Len(rows) :
               rows[i] # <<>> /\ rows[i][1] # "" /\ int(rows[i][1]) = user_id})

presence_of_row(r) ==
    [user_id |-> int(r[1]),
     state |-> r[2],
     current_dialog_id |-> r[3],
     main_message_id |-> r[4],
     updated_at |-> r[5]]

presence_default(user_id) ==
    [user_id |-> user_id,
     state |-> "",
     current_dialog_id |-> "",
     main_message_id |-> "",
     updated_at |-> ""]

presence_in_rows(rows, hit, user_id) ==
    IF hit # 0 THEN presence_of_row(Pad(rows[hit], 5)) ELSE presence_default(user_id)

presence_scan(rows, user_id) == presence_in_rows(rows, row_of_user(rows, user_id), user_id)

get_presence(table, user_id) == presence_scan(SheetGet(table, 5), user_id)

find_presence_row(table, user_id) == row_of_user(SheetGet(table, 1), user_id)

presence_values(p) ==
    <<str(p.user_id), p.state, p.current_dialog_id, p.main_message_id, p.updated_at>>

upsert_presence(table, p) ==
    write_row(table, find_presence_row(table, p.user_id), presence_values(p))

\* presence_update stamped by a clock that runs backwards
presence_update_backwards(p, state, current_dialog_id, main_message_id, t) ==
    [p EXCEPT !.state = state,
              !.current_dialog_id = current_dialog_id,
              !.main_message_id = IF main_message_id # None THEN str(main_message_id) ELSE @,
              !.updated_at = utc_now_iso(CHOOSE x \in Times :
                                Cardinality({y \in Times : y > x}) = Cardinality({y \in Times : y < t}))]

\* the record set_presence writes: the stored one with the fields replaced
presence_update(p, state, current_dialog_id, main_message_id, t) ==
    [p EXCEPT !.state = state,
              !.current_dialog_id = current_dialog_id,
              !.main_message_id = IF main_message_id # None THEN str(main_message_id) ELSE @,
              !.updated_at = utc_now_iso(t)]

set_presence(table, user_id, state, current_dialog_id, main_message_id, t) ==
    upsert_presence(table,
        presence_update(get_presence(table, user_id), state, current_dialog_id, main_message_id, t))

-----------------------------------------------------------------------------
(* The world a handler runs in: the sheets, the sessions, the transport,   *)
(* whether an exception is propagating, and what the transport will answer *)
(* to the calls of this handler (del_ok: a delete of a live message        *)
(* succeeds; sends: the outcome of each send, in call order).              *)

World(env) ==
    [presence |-> presence,
     dialog_meta |-> dialog_meta,
     dialogs |-> dialogs,
     users |-> users,
     dialog_messages |-> dialog_messages,
     user_data |-> user_data,
     messages |-> messages,
     raised |-> FALSE,
     faults |-> FALSE,
     del_ok |-> env.del_ok,
     sends |-> env.sends]

Envs == [del_ok : BOOLEAN, sends : [1..2 -> BOOLEAN]]

\* the transport answers every call of the handler with success
AllOk == [del_ok |-> TRUE, sends |-> <<TRUE, TRUE>>]

\* send_message / send_photo / reply_text to a chat; the new message id is Len(messages)
send_message(w, chat_id, kind) ==
    IF Head(w.sends)
    THEN [w EXCEPT !.messages = Append(@, [chat |-> chat_id, kind |-> kind, live |-> TRUE]),
                   !.sends = Tail(@)]
    ELSE [w EXCEPT !.raised = TRUE, !.faults = TRUE, !.sends = Tail(@)]

\* delete_message whose failure is not swallowed
delete_message_raising(w, chat_id, message_id) ==
    IF /\ message_id \in 1..Len(w.messages)
       /\ w.messages[message_id].chat = chat_id
       /\ w.messages[message_id].live
       /\ w.del_ok
    THEN [w EXCEPT !.messages[message_id].live = FALSE]
    ELSE [w EXCEPT !.raised = TRUE, !.faults = TRUE]

\* try: delete_message(...) except Exception: pass
delete_message(w, chat_id, message_id) ==
    IF /\ message_id \in 1..Len(w.messages)
       /\ w.messages[message_id].chat = chat_id
       /\ w.messages[message_id].live
    THEN IF w.del_ok
         THEN [w EXCEPT !.messages[message_id].live = FALSE]
         ELSE [w EXCEPT !.faults = TRUE]
    ELSE w

-----------------------------------------------------------------------------
(* Session state *)

get_state(ud) == dict_get(ud, "state", STATE_ONBOARDING_NAME)

set_state(ud, state) == dict_set(ud, "state", state)

get_main_message_id(ud) == dict_get(ud, "main_message_id", None)

set_main_message_id(ud, message_id) == dict_set(ud, "main_message_id", message_id)

\* Python truth of an int or None
Truthy(x) == x # None /\ x # 0

-----------------------------------------------------------------------------
(* Screen Controller *)

\* msg_id = context.user_data.pop("main_message_id", None), then the guarded delete
drop_old_screen(w, uid, msg_id) ==
    IF Truthy(msg_id)
    THEN delete_message([w EXCEPT !.user_data[uid] = dict_pop(@, "main_message_id")], uid, msg_id)
    ELSE [w EXCEPT !.user_data[uid] = dict_pop(@, "main_message_id")]

\* after the send: the handle goes to the session, then set_presence
keep_screen(w, t, uid, sent) ==
    [w EXCEPT !.user_data[uid] = set_main_message_id(@, sent),
              !.presence = set_presence(@, uid, get_state(w.user_data[uid]),
                                        dict_get(w.user_data[uid], "current_dialog_id", ""),
                                        sent, t)]

\* a failed send raises out of the function before anything is recorded
sent_screen(w, t, uid) ==
    IF w.raised THEN w ELSE keep_screen(w, t, uid, Len(w.messages))

show_recommendation(w, t, uid) ==
    sent_screen(
        send_message(drop_old_screen(w, uid, dict_get(w.user_data[uid], "main_message_id", None)),
                     uid, "main"),
        t, uid)

\* show_screen without the early return in the DIALOG state
show_screen_unguarded(w, t, uid) ==
    sent_screen(
        send_message(drop_old_screen(w, uid, get_main_message_id(w.user_data[uid])),
                     uid, "main"),
        t, uid)

show_screen(w, t, uid) ==
    IF get_state(w.user_data[uid]) = STATE_DIALOG
    THEN w
    ELSE sent_screen(
             send_message(drop_old_screen(w, uid, get_main_message_id(w.user_data[uid])),
                          uid, "main"),
             t, uid)

\* if old_mid: try: delete_message(int(old_mid)) except Exception: pass
drop_old_dialog_screen(w, chat, old_mid) ==
    IF old_mid # "" THEN delete_message(w, chat, int(old_mid)) ELSE w

session_in_dialog(ud, dialog_id, sent) ==
    set_state(dict_set(dict_set(ud, "current_dialog_id", dialog_id), "main_message_id", sent),
              STATE_DIALOG)

\* keep_dialog_screen that writes the session and leaves the presence sheet alone
keep_dialog_screen_session_only(w, t, ctx_uid, dialog_id, user_id, sent) ==
    [w EXCEPT !.user_data = IF ctx_uid # None
                            THEN [@ EXCEPT ![ctx_uid] = session_in_dialog(@, dialog_id, sent)]
                            ELSE @]

\* set_presence(DIALOG, dialog_id, sent), then the session of the context passed
keep_dialog_screen(w, t, ctx_uid, dialog_id, user_id, sent) ==
    [w EXCEPT !.presence = set_presence(@, user_id, STATE_DIALOG, dialog_id, sent, t),
              !.user_data = IF ctx_uid # None
                            THEN [@ EXCEPT ![ctx_uid] = session_in_dialog(@, dialog_id, sent)]
                            ELSE @]

sent_dialog_screen(w, t, ctx_uid, dialog_id, user_id) ==
    IF w.raised THEN w ELSE keep_dialog_screen(w, t, ctx_uid, dialog_id, user_id, Len(w.messages))

\* update_uid: the user of the update, None for a system-initiated render;
\* ctx_uid: the user whose context was passed, None for no context.
\* The chat is update.effective_chat with an update, else the user's own chat.
render_dialog_screen(w, t, update_uid, ctx_uid, dialog_id, user_id) ==
    sent_dialog_screen(
        send_message(
            drop_old_dialog_screen(w, IF update_uid # None THEN update_uid ELSE user_id,
                                   get_presence(w.presence, user_id).main_message_id),
            IF update_uid # None THEN update_uid ELSE user_id, "main"),
        t, ctx_uid, dialog_id, user_id)

-----------------------------------------------------------------------------
(* Dialogs and recommendations *)

users_of_row(rows, hit) ==
    IF hit # 0 THEN <<int(rows[hit][2]), int(rows[hit][3])>> ELSE <<None, None>>

dialog_users_scan(rows, dialog_id) == users_of_row(rows, row_of_key(rows, dialog_id))

get_dialog_users(table, dialog_id) == dialog_users_scan(SheetGet(table, 5), dialog_id)

save_dialog_message(table, dialog_id, from_user, text, t) ==
    Append(table, <<dialog_id, str(from_user), text, utc_now_iso(t)>>)

\* f"{user_1}_{user_2}_{int(datetime.now().timestamp())}"
new_dialog_id(user_1, user_2, t) ==
    str(user_1) \o "_" \o str(user_2) \o "_" \o ToString(t)

\* the row create_dialog appends to the dialogs sheet
create_dialog(table, user_1, user_2, t) ==
    Append(table, <<new_dialog_id(user_1, user_2, t), str(user_1), str(user_2),
                    utc_now_iso(t), "active">>)

\* a profile or user that is None (falsy, like the empty dict)
NoUser == EmptyDict

profile_at(table, hit) == IF hit # 0 THEN table[hit] ELSE NoUser

\* the profile dict of a stored user, NoUser when the sheet has no row for the user
load_user_profile(table, user_id) ==
    profile_at(table, FirstOf({i \in 1..Len(table) : table[i].user_id = user_id}))

ProfileKeys == {"looking_for_age_min", "looking_for_age_max", "looking_for_gender"}

\* the candidates find_recommendation compares with the profile
candidates(table, current_user_id) ==
    {i \in 1..Len(table) :
        table[i].onboarding_completed /\ table[i].user_id # current_user_id}

\* find_recommendation raises (KeyError, TypeError) when it has a candidate to
\* compare and the profile lacks a field it reads
recommendation_raises(table, current_user_id, profile) ==
    /\ candidates(table, current_user_id) # {}
    /\ ~(ProfileKeys \subseteq DOMAIN profile)

\* the first stored user that fits the profile, NoUser when no one does
find_recommendation(table, current_user_id, profile) ==
    profile_at(table,
        FirstOf({i \in candidates(table, current_user_id) :
                   /\ profile.looking_for_age_min <= table[i].age
                   /\ table[i].age <= profile.looking_for_age_max
                   /\ (profile.looking_for_gender = "any"
                       \/ table[i].gender = profile.looking_for_gender)}))

-----------------------------------------------------------------------------
(* Notification Throttler *)

\* target_of that picks the acting user
target_is_sender(du, from_user) == from_user

\* target = u2 if u1 == from_user else u1
target_of(du, from_user) == IF du[1] = from_user THEN du[2] ELSE du[1]

notify_target(w, dialog_id, from_user) ==
    target_of(get_dialog_users(w.dialogs, dialog_id), from_user)

\* the column of the target's last notification
notify_field(du, target) ==
    IF target = du[1] THEN "u1_last_notify_at" ELSE "u2_last_notify_at"

open_field(du, target) ==
    IF target = du[1] THEN "u1_last_open_at" ELSE "u2_last_open_at"

\* is_presence_fresh that finds no presence fresh
never_fresh(t, presence_updated) == FALSE

is_presence_fresh(t, presence_updated) ==
    presence_updated # None /\ t - presence_updated <= PRESENCE_ACTIVE_SEC

\* throttle without the active-window return
throttle_no_active_window(t, dialog_id, last_open, last_notify, p) ==
    IF last_notify # None /\ t - last_notify <= NOTIFY_COOLDOWN_SEC THEN "cooldown"
    ELSE IF /\ p.state = STATE_DIALOG
            /\ p.current_dialog_id = dialog_id
            /\ is_presence_fresh(t, iso_to_dt(p.updated_at))
         THEN "refresh"
         ELSE "notify"

\* throttle without the cooldown return
throttle_no_cooldown(t, dialog_id, last_open, last_notify, p) ==
    IF last_open # None /\ t - last_open <= ACTIVE_WINDOW_SEC THEN "active_window"
    ELSE IF /\ p.state = STATE_DIALOG
            /\ p.current_dialog_id = dialog_id
            /\ is_presence_fresh(t, iso_to_dt(p.updated_at))
         THEN "refresh"
         ELSE "notify"

\* throttle whose two windows exclude their bounds
throttle_exclusive(t, dialog_id, last_open, last_notify, p) ==
    IF last_open # None /\ t - last_open < ACTIVE_WINDOW_SEC THEN "active_window"
    ELSE IF last_notify # None /\ t - last_notify < NOTIFY_COOLDOWN_SEC THEN "cooldown"
    ELSE IF /\ p.state = STATE_DIALOG
            /\ p.current_dialog_id = dialog_id
            /\ is_presence_fresh(t, iso_to_dt(p.updated_at))
         THEN "refresh"
         ELSE "notify"

\* throttle whose cooldown never expires
throttle_cooldown_forever(t, dialog_id, last_open, last_notify, p) ==
    IF last_open # None /\ t - last_open <= ACTIVE_WINDOW_SEC THEN "active_window"
    ELSE IF last_notify # None THEN "cooldown"
    ELSE IF /\ p.state = STATE_DIALOG
            /\ p.current_dialog_id = dialog_id
            /\ is_presence_fresh(t, iso_to_dt(p.updated_at))
         THEN "refresh"
         ELSE "notify"

\* the chain of early returns, from the timestamps and the presence record read
throttle_any_state(t, dialog_id, last_open, last_notify, p) ==
    IF last_open # None /\ t - last_open <= ACTIVE_WINDOW_SEC THEN "active_window"
    ELSE IF last_notify # None /\ t - last_notify <= NOTIFY_COOLDOWN_SEC THEN "cooldown"
    ELSE IF /\ p.current_dialog_id = dialog_id
            /\ is_presence_fresh(t, iso_to_dt(p.updated_at))
         THEN "refresh"
         ELSE "notify"

throttle(t, dialog_id, last_open, last_notify, p) ==
    IF last_open # None /\ t - last_open <= ACTIVE_WINDOW_SEC THEN "active_window"
    ELSE IF last_notify # None /\ t - last_notify <= NOTIFY_COOLDOWN_SEC THEN "cooldown"
    ELSE IF /\ p.state = STATE_DIALOG
            /\ p.current_dialog_id = dialog_id
            /\ is_presence_fresh(t, iso_to_dt(p.updated_at))
         THEN "refresh"
         ELSE "notify"

\* throttle_target that reads the fields of the participant who is not the target
throttle_by_sender(w, t, dialog_id, du, target, meta) ==
    throttle(t, dialog_id,
             iso_to_dt(meta[open_field(du, IF target = du[1] THEN du[2] ELSE du[1])]),
             iso_to_dt(meta[notify_field(du, IF target = du[1] THEN du[2] ELSE du[1])]),
             get_presence(w.presence, IF target = du[1] THEN du[2] ELSE du[1]))

throttle_target(w, t, dialog_id, du, target, meta) ==
    throttle(t, dialog_id,
             iso_to_dt(meta[open_field(du, target)]),
             iso_to_dt(meta[notify_field(du, target)]),
             get_presence(w.presence, target))

\* resolve_and_throttle without the return on unresolved participants
throttle_unresolved(w, t, dialog_id, from_user, du) ==
    throttle_target(w, t, dialog_id, du, target_of(du, from_user),
                    get_dialog_meta(w.dialog_meta, dialog_id))

resolve_and_throttle(w, t, dialog_id, from_user, du) ==
    IF ~Truthy(du[1]) \/ ~Truthy(du[2]) THEN "unresolved"
    ELSE throttle_target(w, t, dialog_id, du, target_of(du, from_user),
                         get_dialog_meta(w.dialog_meta, dialog_id))

\* the branch notify_new_dialog takes at clock value t
notify_decision(w, t, dialog_id, from_user) ==
    resolve_and_throttle(w, t, dialog_id, from_user, get_dialog_users(w.dialogs, dialog_id))

\* stamp_notify that stamps after a failed send too
stamp_notify_after_failure(w, t, meta, field) ==
    [w EXCEPT !.dialog_meta = upsert_dialog_meta(@, [meta EXCEPT ![field] = utc_now_iso(t)])]

\* stamp_notify that writes no stamp
stamp_notify_skipped(w, t, meta, field) == w

\* meta[notify_field] = now; upsert_dialog_meta(meta), unless the send raised
stamp_notify(w, t, meta, field) ==
    IF w.raised THEN w
    ELSE [w EXCEPT !.dialog_meta = upsert_dialog_meta(@, [meta EXCEPT ![field] = utc_now_iso(t)])]

\* notify_act whose silent refresh goes on to the notification
notify_act_both(w, t, ctx_uid, dialog_id, du, target, decision) ==
    CASE decision \in {"unresolved", "active_window", "cooldown"} -> w
      [] decision = "refresh" ->
            stamp_notify(
                send_message(render_dialog_screen(w, t, None, ctx_uid, dialog_id, target),
                             target, "notify"),
                t, get_dialog_meta(w.dialog_meta, dialog_id), notify_field(du, target))
      [] OTHER ->
            stamp_notify(send_message(w, target, "notify"), t,
                         get_dialog_meta(w.dialog_meta, dialog_id), notify_field(du, target))

notify_act(w, t, ctx_uid, dialog_id, du, target, decision) ==
    CASE decision \in {"unresolved", "active_window", "cooldown"} -> w
      [] decision = "refresh" ->
            render_dialog_screen(w, t, None, ctx_uid, dialog_id, target)
      [] OTHER ->
            stamp_notify(send_message(w, target, "notify"), t,
                         get_dialog_meta(w.dialog_meta, dialog_id), notify_field(du, target))

notify_new_dialog(w, t, ctx_uid, dialog_id, from_user) ==
    notify_act(w, t, ctx_uid, dialog_id,
               get_dialog_users(w.dialogs, dialog_id),
               notify_target(w, dialog_id, from_user),
               notify_decision(w, t, dialog_id, from_user))

-----------------------------------------------------------------------------
(* Handlers *)

Raise(w) == [w EXCEPT !.raised = TRUE]

\* main_message_id survives user_data.clear()
cleared_session(main_msg_id) ==
    IF Truthy(main_msg_id) THEN dict_set(EmptyDict, "main_message_id", main_msg_id)
    ELSE EmptyDict

\* the three places that show the recommendation found, or the empty screen
show_found(w, t, uid, profile) ==
    IF recommendation_raises(w.users, uid, profile) THEN Raise(w)
    ELSE IF find_recommendation(w.users, uid, profile) = NoUser
         THEN show_screen(w, t, uid)
         ELSE show_recommendation(
                  [w EXCEPT !.user_data[uid] = set_state(@, STATE_RECOMMENDATION)], t, uid)

start_with(w, t, uid, cleared, profile) ==
    IF profile = NoUser
    THEN show_screen(
             [w EXCEPT !.user_data[uid] =
                 dict_set(set_state(cleared, STATE_ONBOARDING_NAME),
                          "profile", [photos |-> <<>>])],
             t, uid)
    ELSE show_found([w EXCEPT !.user_data[uid] = dict_set(cleared, "profile", profile)],
                    t, uid, profile)

\* /start
start(w, t, uid) ==
    start_with(w, t, uid,
               cleared_session(dict_get(w.user_data[uid], "main_message_id", None)),
               load_user_profile(w.users, uid))

\* stamped_open that stamps both participants
stamped_open_both(meta, uid, du, t) ==
    [meta EXCEPT !.u1_last_open_at = utc_now_iso(t), !.u2_last_open_at = utc_now_iso(t)]

stamped_open(meta, uid, du, t) ==
    IF uid = du[1] THEN [meta EXCEPT !.u1_last_open_at = utc_now_iso(t)]
    ELSE IF uid = du[2] THEN [meta EXCEPT !.u2_last_open_at = utc_now_iso(t)]
    ELSE meta

\* the dialog: and rec:start: branches stamp the opener's last open time
stamp_open(w, t, uid, dialog_id) ==
    [w EXCEPT !.dialog_meta =
        upsert_dialog_meta(@, stamped_open(get_dialog_meta(w.dialog_meta, dialog_id), uid,
                                           get_dialog_users(w.dialogs, dialog_id), t))]

\* set_presence(uid, IDLE, "", user_data.get("main_message_id")), unless show_screen raised
presence_idle(w, t, uid) ==
    IF w.raised THEN w
    ELSE [w EXCEPT !.presence =
             set_presence(@, uid, STATE_IDLE, "",
                          dict_get(w.user_data[uid], "main_message_id", None), t)]

\* context.user_data["current_dialog_id"] = "", then the presence reset
leave_dialog(w, t, uid) ==
    IF w.raised THEN w
    ELSE presence_idle([w EXCEPT !.user_data[uid] = dict_set(@, "current_dialog_id", "")],
                       t, uid)

go_recommendations(w, t, uid, profile) ==
    IF recommendation_raises(w.users, uid, profile) THEN Raise(w)
    ELSE IF find_recommendation(w.users, uid, profile) = NoUser
         THEN leave_dialog(show_screen(w, t, uid), t, uid)
         ELSE show_recommendation(
                  [w EXCEPT !.user_data[uid] = set_state(@, STATE_RECOMMENDATION)], t, uid)

\* profile = context.user_data.get("profile") or load_user_profile(uid)
rec_skip(w, t, uid, profile) ==
    show_found([w EXCEPT !.user_data[uid] = dict_set(@, "profile", profile)], t, uid, profile)

\* rec:start:<other_id>: create the dialog, stamp the open, render the dialog
rec_start(w, t, uid, other_id) ==
    render_dialog_screen(
        stamp_open([w EXCEPT !.dialogs = create_dialog(@, uid, other_id, t)],
                   t, uid, new_dialog_id(uid, other_id, t)),
        t, uid, uid, new_dialog_id(uid, other_id, t), uid)

\* a button press; data is callback_data split at ":"
callback(w, t, uid, data) ==
    CASE data = <<"onboarding", "start">> ->
            show_screen([w EXCEPT !.user_data[uid] = set_state(@, STATE_DIALOGS)], t, uid)
      [] data = <<"go", "dialogs">> ->
            presence_idle(
                show_screen([w EXCEPT !.user_data[uid] = set_state(@, STATE_DIALOGS)], t, uid),
                t, uid)
      [] data[1] = "dialog" ->
            IF data[2] = "empty" THEN w
            ELSE render_dialog_screen(stamp_open(w, t, uid, data[2]), t, uid, uid, data[2], uid)
      [] data = <<"profile", "view">> ->
            show_screen(w, t, uid)
      [] data = <<"go", "recommendations">> ->
            IF "profile" \notin DOMAIN w.user_data[uid] THEN Raise(w)
            ELSE go_recommendations(w, t, uid, w.user_data[uid]["profile"])
      [] data = <<"rec", "skip">> ->
            rec_skip(w, t, uid,
                     IF dict_get(w.user_data[uid], "profile", NoUser) # NoUser
                     THEN w.user_data[uid]["profile"]
                     ELSE load_user_profile(w.users, uid))
      [] Len(data) = 3 /\ data[1] = "rec" /\ data[2] = "start" ->
            rec_start(w, t, uid, int(data[3]))
      [] OTHER -> w

\* the sender's own screen, unless the throttler raised
rerender_sender(w, t, uid, dialog_id) ==
    IF w.raised THEN w ELSE render_dialog_screen(w, t, uid, uid, dialog_id, uid)

\* the DIALOG branch: save, throttle, re-render
dialog_text(w, t, uid, dialog_id, text) ==
    IF dialog_id = "" THEN w
    ELSE rerender_sender(
             notify_new_dialog(
                 [w EXCEPT !.dialog_messages = save_dialog_message(@, dialog_id, uid, text, t)],
                 t, uid, dialog_id, uid),
             t, uid, dialog_id)

\* a text message
handle_text(w, t, uid, text) ==
    IF get_state(w.user_data[uid]) = STATE_DIALOG
    THEN dialog_text(w, t, uid, dict_get(w.user_data[uid], "current_dialog_id", ""), text)
    ELSE w

\* a text message in the ONBOARDING_NAME state is taken as the name
onboarding_text(w, t, uid, text) ==
    IF get_state(w.user_data[uid]) = STATE_ONBOARDING_NAME
    THEN show_screen(
             [w EXCEPT !.user_data[uid] =
                 dict_set(set_state(@, STATE_ONBOARDING_AGE), "profile",
                          dict_set(dict_get(@, "profile", EmptyDict), "name", text))],
             t, uid)
    ELSE handle_text(w, t, uid, text)

-----------------------------------------------------------------------------
(* The sequential specification: handlers run one at a time, to completion *)

Dialog1 == "d1"

DialogIds == {Dialog1}

Texts == {"hi"}

InitSheets ==
    /\ presence = <<>>
    /\ dialog_meta = <<>>
    /\ dialogs = << <<Dialog1, "1", "2", utc_now_iso(0), "active">> >>
    /\ users = << [user_id |-> 1, age |-> 30, gender |-> "male",
                   onboarding_completed |-> TRUE, looking_for_gender |-> "female",
                   looking_for_age_min |-> 18, looking_for_age_max |-> 99],
                  [user_id |-> 2, age |-> 25, gender |-> "female",
                   onboarding_completed |-> TRUE, looking_for_gender |-> "male",
                   looking_for_age_min |-> 40, looking_for_age_max |-> 99] >>
    /\ dialog_messages = <<>>
    /\ pg_presence = EmptyDict

Init ==
    /\ InitSheets
    /\ user_data = [u \in Users |-> EmptyDict]
    /\ messages = <<>>
    /\ now = 0
    /\ last = [op |-> "init"]
    /\ faulty = FALSE
    /\ procs = <<>>

\* the handler's world becomes the state; cap bounds the messages sent so far
Commit(w, entry, cap) ==
    /\ Len(w.messages) <= cap
    /\ Len(w.dialog_messages) <= MaxTexts
    /\ presence' = w.presence
    /\ dialog_meta' = w.dialog_meta
    /\ dialogs' = w.dialogs
    /\ users' = w.users
    /\ dialog_messages' = w.dialog_messages
    /\ user_data' = w.user_data
    /\ messages' = w.messages
    /\ faulty' = (faulty \/ w.faults)
    /\ last' = entry
    /\ UNCHANGED <<now, pg_presence, procs>>

Start(u, env, cap) ==
    Commit(start(World(env), now, u), [op |-> "start", uid |-> u], cap)

Press(u, data, env, cap) ==
    Commit(callback(World(env), now, u, data), [op |-> data[1], uid |-> u, arg |-> data[2]], cap)

GoDialogs(u, env, cap) == Press(u, <<"go", "dialogs">>, env, cap)

OpenDialog(u, d, env, cap) == Press(u, <<"dialog", d>>, env, cap)

ProfileView(u, env, cap) == Press(u, <<"profile", "view">>, env, cap)

GoRecommendations(u, env, cap) == Press(u, <<"go", "recommendations">>, env, cap)

RecSkip(u, env, cap) == Press(u, <<"rec", "skip">>, env, cap)

\* what the throttler decided inside handle_text, "none" when it did not run
text_decision(w, t, uid) ==
    LET dialog_id == dict_get(w.user_data[uid], "current_dialog_id", "")
    IN IF get_state(w.user_data[uid]) = STATE_DIALOG /\ dialog_id # ""
       THEN notify_decision(w, t, dialog_id, uid)
       ELSE "none"

HandleText(u, text, env, cap) ==
    Commit(handle_text(World(env), now, u, text),
           [op |-> "text", uid |-> u, decision |-> text_decision(World(env), now, u)],
           cap)

Tick ==
    /\ \E t \in ClockValues : t > now /\ now' = t
    /\ UNCHANGED <<presence, dialog_meta, dialogs, users, dialog_messages, user_data,
                   messages, last, faulty, pg_presence, procs>>

\* the two participants of a dialog opening it, leaving it and writing in it
DialogStep(cap) ==
    \/ \E u \in Users : GoDialogs(u, AllOk, cap)
    \/ \E u \in Users, d \in DialogIds \cup {"empty"} : OpenDialog(u, d, AllOk, cap)
    \/ \E u \in Users : ProfileView(u, AllOk, cap)
    \/ \E u \in Users, text \in Texts : HandleText(u, text, AllOk, cap)
    \/ Tick

Next == DialogStep(MaxMsgs)

Spec == Init /\ [][Next]_vars

NextScreens == DialogStep(MaxScreens)

SpecScreens == Init /\ [][NextScreens]_vars

-----------------------------------------------------------------------------
(* The specification with transport failures: in every handler a delete may *)
(* fail or the first send may fail.  The clock stands still.                *)

DeleteFails == [del_ok |-> FALSE, sends |-> <<TRUE, TRUE>>]

SendFails == [del_ok |-> TRUE, sends |-> <<FALSE, TRUE>>]

FaultEnvs == {AllOk, DeleteFails, SendFails}

NextFaults ==
    \/ \E u \in Users, env \in FaultEnvs : GoDialogs(u, env, MaxFaultMsgs)
    \/ \E u \in Users, d \in DialogIds, env \in FaultEnvs : OpenDialog(u, d, env, MaxFaultMsgs)
    \/ \E u \in Users, text \in Texts, env \in FaultEnvs : HandleText(u, text, env, MaxFaultMsgs)

SpecFaults == Init /\ [][NextFaults]_vars

-----------------------------------------------------------------------------
(* The specification with a stray button: dialog:<id> pressed for an id     *)
(* that has no row in the dialogs sheet.  The clock stands still.           *)

StrayDialog == "d0"

NextStray ==
    \/ \E u \in Users : GoDialogs(u, AllOk, MaxFaultMsgs)
    \/ \E u \in Users, d \in DialogIds \cup {StrayDialog} : OpenDialog(u, d, AllOk, MaxFaultMsgs)
    \/ \E u \in Users, text \in Texts : HandleText(u, text, AllOk, MaxFaultMsgs)

SpecStray == Init /\ [][NextStray]_vars

-----------------------------------------------------------------------------
(* The whole application, handlers one at a time: /start, every button of   *)
(* the generic screens, the recommendation buttons and text messages.       *)

\* the rec:start button of the recommendation shown to u
RecStart(u, rec) ==
    /\ get_state(user_data[u]) = STATE_RECOMMENDATION
    /\ rec # NoUser
    /\ Len(dialogs) < MaxDialogs
    /\ Press(u, <<"rec", "start", str(rec.user_id)>>, AllOk, MaxAppMsgs)

\* a text in a dialog sends two messages: the refresh or notification, and the screen
Text(u, text) ==
    Commit(onboarding_text(World(AllOk), now, u, text),
           [op |-> "text", uid |-> u, decision |-> text_decision(World(AllOk), now, u)],
           MaxMsgs)

NextApp ==
    \/ \E u \in Users : Start(u, AllOk, MaxAppMsgs)
    \/ \E u \in Users : GoDialogs(u, AllOk, MaxAppMsgs)
    \/ \E u \in Users, d \in {dialogs[i][1] : i \in 1..Len(dialogs)} :
          OpenDialog(u, d, AllOk, MaxAppMsgs)
    \/ \E u \in Users : ProfileView(u, AllOk, MaxAppMsgs)
    \/ \E u \in Users : GoRecommendations(u, AllOk, MaxAppMsgs)
    \/ \E u \in Users : RecSkip(u, AllOk, MaxAppMsgs)
    \/ \E u \in Users :
          RecStart(u, find_recommendation(users, u, load_user_profile(users, u)))
    \/ \E u \in Users, text \in Texts : Text(u, text)
    \/ Tick

SpecApp == Init /\ [][NextApp]_vars

-----------------------------------------------------------------------------
(* The specification with process restarts: user_data lives in the memory   *)
(* of the process, so a restart empties every session while the sheets and  *)
(* the messages in the chats stay.  The clock stands still.                 *)

Restart ==
    /\ user_data' = [u \in Users |-> EmptyDict]
    /\ last' = [op |-> "restart"]
    /\ UNCHANGED <<presence, dialog_meta, dialogs, users, dialog_messages, messages, now,
                   faulty, pg_presence, procs>>

NextRestart ==
    \/ \E u \in Users : Start(u, AllOk, MaxMsgs)
    \/ \E u \in Users : GoDialogs(u, AllOk, MaxMsgs)
    \/ \E u \in Users, d \in DialogIds : OpenDialog(u, d, AllOk, MaxMsgs)
    \/ \E u \in Users : ProfileView(u, AllOk, MaxMsgs)
    \/ Restart

SpecRestart == Init /\ [][NextRestart]_vars

-----------------------------------------------------------------------------
(* The throttler's decision as a function of the instant of the call, the   *)
(* two timestamps read from the meta record and the presence record read.   *)
(* The clock is read at any second up to MaxTime; last holds the call.      *)

InitThrottle ==
    /\ InitSheets
    /\ user_data = [u \in Users |-> EmptyDict]
    /\ messages = <<>>
    /\ now \in 0..MaxTime
    /\ last = [op |-> "init"]
    /\ faulty = FALSE
    /\ procs = <<>>

Throttle(last_open, last_notify, p) ==
    /\ last' = [op |-> "throttle", last_open |-> last_open, last_notify |-> last_notify,
                p |-> p, decision |-> throttle(now, Dialog1, last_open, last_notify, p)]
    /\ UNCHANGED <<presence, dialog_meta, dialogs, users, dialog_messages, user_data,
                   messages, now, faulty, pg_presence, procs>>

\* the presence record read: none stored, or one written at a stored instant
NextThrottle ==
    \E last_open \in {None} \cup Times, last_notify \in {None} \cup Times,
       p \in {presence_default(2)}
                \cup {presence_update(presence_default(2), state, d, 1, t) :
                        state \in {STATE_DIALOG, STATE_IDLE}, d \in {Dialog1, ""}, t \in Times} :
        last_open <= now /\ last_notify <= now /\ Throttle(last_open, last_notify, p)

SpecThrottle == InitThrottle /\ [][NextThrottle]_vars

\* a user who keeps starting a dialog from the recommendation shown:
\* /start or go:recommendations, then the rec:start button of that screen
NextCreate ==
    \/ \E u \in Users : Start(u, AllOk, MaxCreateMsgs)
    \/ \E u \in Users : GoRecommendations(u, AllOk, MaxCreateMsgs)
    \/ \E u \in Users :
          /\ get_state(user_data[u]) = STATE_RECOMMENDATION
          /\ find_recommendation(users, u, load_user_profile(users, u)) # NoUser
          /\ Len(dialogs) < MaxCreated
          /\ Press(u, <<"rec", "start",
                        str(find_recommendation(users, u, load_user_profile(users, u)).user_id)>>,
                   AllOk, MaxCreateMsgs)
    \/ Tick

SpecCreate == Init /\ [][NextCreate]_vars

-----------------------------------------------------------------------------
(* The SQL presence store (db_presence.py) *)

\* fetchrow's None: the query matched no row
NoRow == EmptyDict

\* SELECT * FROM presence WHERE user_id = $1
db_get_presence(table, user_id) ==
    IF user_id \in DOMAIN table THEN table[user_id] ELSE NoRow

\* INSERT ... ON CONFLICT (user_id) DO UPDATE: every column replaced, updated_at = now()
db_upsert_presence(table, user_id, state, current_dialog_id, main_message_id, t) ==
    dict_set(table, user_id,
             [user_id |-> user_id,
              state |-> state,
              current_dialog_id |-> current_dialog_id,
              main_message_id |-> main_message_id,
              updated_at |-> t])

-----------------------------------------------------------------------------
(* The store specifications: the stores driven through their own functions, *)
(* one call at a time                                                       *)

Dialog2 == "d2"

MetaKeys == {Dialog1, Dialog2}

\* the records upsert_dialog_meta is called with
MetaInputs ==
    [dialog_id : MetaKeys,
     u1_last_open_at : {"", utc_now_iso(0)},
     u2_last_open_at : {""},
     u1_last_notify_at : {""},
     u2_last_notify_at : {"", utc_now_iso(0)}]

\* the message handles the presence functions are called with
Handles == {None, MaxScreens + 2}

\* the rows of a sheet that carry a key in their first cell
RowsOf(table, cell) == {i \in 1..Len(table) : table[i][1] = cell}

UpsertDialogMeta(meta) ==
    /\ dialog_meta' = upsert_dialog_meta(dialog_meta, meta)
    /\ last' = [op |-> "upsert_dialog_meta",
                arg |-> meta,
                fresh |-> RowsOf(dialog_meta, meta.dialog_id) = {},
                second |-> /\ last.op = "upsert_dialog_meta"
                           /\ last.arg.dialog_id = meta.dialog_id
                           /\ last.arg # meta
                           /\ last.fresh]
    /\ UNCHANGED <<presence, dialogs, users, dialog_messages, user_data, messages, now,
                   faulty, pg_presence, procs>>

SetPresence(u, state, current_dialog_id, main_message_id) ==
    /\ presence' = set_presence(presence, u, state, current_dialog_id, main_message_id, now)
    /\ last' = [op |-> "set_presence",
                uid |-> u,
                state |-> state,
                current_dialog_id |-> current_dialog_id,
                main_message_id |-> main_message_id,
                t |-> now,
                fresh |-> RowsOf(presence, str(u)) = {}]
    /\ UNCHANGED <<dialog_meta, dialogs, users, dialog_messages, user_data, messages, now,
                   faulty, pg_presence, procs>>

NextStore ==
    \/ \E meta \in MetaInputs : UpsertDialogMeta(meta)
    \/ \E u \in Users, d \in {"", Dialog1}, h \in Handles :
          SetPresence(u, IF d = "" THEN STATE_IDLE ELSE STATE_DIALOG, d, h)
    \/ Tick

SpecStore == Init /\ [][NextStore]_vars

DbUpsertPresence(u, state, current_dialog_id, main_message_id) ==
    /\ pg_presence' = db_upsert_presence(pg_presence, u, state, current_dialog_id,
                                         main_message_id, now)
    /\ last' = [op |-> "db_upsert_presence",
                uid |-> u,
                state |-> state,
                current_dialog_id |-> current_dialog_id,
                main_message_id |-> main_message_id,
                t |-> now]
    /\ UNCHANGED <<presence, dialog_meta, dialogs, users, dialog_messages, user_data,
                   messages, now, faulty, procs>>

\* row = await get_presence(user_id)
DbGetPresence(u) ==
    /\ last' = [op |-> "db_get_presence",
                uid |-> u,
                stored |-> u \in DOMAIN pg_presence,
                row |-> db_get_presence(pg_presence, u)]
    /\ UNCHANGED <<presence, dialog_meta, dialogs, users, dialog_messages, user_data,
                   messages, now, faulty, pg_presence, procs>>

NextDb ==
    \/ \E u \in Users, d \in {"", Dialog1}, h \in Handles :
          DbUpsertPresence(u, IF d = "" THEN STATE_IDLE ELSE STATE_DIALOG, d, h)
    \/ \E u \in Users : DbGetPresence(u)
    \/ Tick

SpecDb == Init /\ [][NextDb]_vars

-----------------------------------------------------------------------------
(* The interleaved specification: store calls of concurrently running       *)
(* handlers, every read of a sheet and every write to it a step of its own. *)
(* procs holds the calls in flight: the function, the next step, the        *)
(* record to write and, after the scan, the row the scan found.             *)

\* a sequence without its i-th element
Without(seq, i) == SubSeq(seq, 1, i - 1) \o SubSeq(seq, i + 1, Len(seq))

\* upsert_dialog_meta(meta) is called
CallUpsertDialogMeta(meta) ==
    /\ Len(procs) < MaxCalls
    /\ procs' = Append(procs, [fn |-> "upsert_dialog_meta", pc |-> "scan", values |-> meta])
    /\ UNCHANGED <<presence, dialog_meta, dialogs, users, dialog_messages, user_data,
                   messages, now, last, faulty, pg_presence>>

\* rows = values().get("dialog_meta!A2:A"), and the loop over rows
ScanDialogMeta(i) ==
    /\ procs[i].fn = "upsert_dialog_meta"
    /\ procs[i].pc = "scan"
    /\ procs' = [procs EXCEPT ![i] =
                    [fn |-> "upsert_dialog_meta", pc |-> "write", values |-> procs[i].values,
                     target_row |-> find_dialog_meta_row(dialog_meta, procs[i].values.dialog_id)]]
    /\ UNCHANGED <<presence, dialog_meta, dialogs, users, dialog_messages, user_data,
                   messages, now, last, faulty, pg_presence>>

\* values().update(...) of the row found, or values().append(...)
WriteDialogMeta(i) ==
    /\ procs[i].fn = "upsert_dialog_meta"
    /\ procs[i].pc = "write"
    /\ dialog_meta' = write_row(dialog_meta, procs[i].target_row,
                                dialog_meta_values(procs[i].values))
    /\ procs' = Without(procs, i)
    /\ last' = [op |-> "upsert_dialog_meta", key |-> procs[i].values.dialog_id]
    /\ UNCHANGED <<presence, dialogs, users, dialog_messages, user_data, messages, now,
                   faulty, pg_presence>>

\* set_presence(...) is called
CallSetPresence(u, state, current_dialog_id, main_message_id) ==
    /\ Len(procs) < MaxCalls
    /\ procs' = Append(procs, [fn |-> "set_presence", pc |-> "get",
                               values |-> [user_id |-> u, state |-> state,
                                           current_dialog_id |-> current_dialog_id,
                                           main_message_id |-> main_message_id]])
    /\ UNCHANGED <<presence, dialog_meta, dialogs, users, dialog_messages, user_data,
                   messages, now, last, faulty, pg_presence>>

\* p = get_presence(user_id), and the assignments to p
ReadPresence(i) ==
    /\ procs[i].fn = "set_presence"
    /\ procs[i].pc = "get"
    /\ procs' = [procs EXCEPT ![i] =
                    [fn |-> "set_presence", pc |-> "scan",
                     values |-> presence_update(get_presence(presence, procs[i].values.user_id),
                                                procs[i].values.state,
                                                procs[i].values.current_dialog_id,
                                                procs[i].values.main_message_id, now)]]
    /\ UNCHANGED <<presence, dialog_meta, dialogs, users, dialog_messages, user_data,
                   messages, now, last, faulty, pg_presence>>

\* upsert_presence: rows = values().get("presence!A2:A"), and the loop over rows
ScanPresence(i) ==
    /\ procs[i].fn = "set_presence"
    /\ procs[i].pc = "scan"
    /\ procs' = [procs EXCEPT ![i] =
                    [fn |-> "set_presence", pc |-> "write", values |-> procs[i].values,
                     target_row |-> find_presence_row(presence, procs[i].values.user_id)]]
    /\ UNCHANGED <<presence, dialog_meta, dialogs, users, dialog_messages, user_data,
                   messages, now, last, faulty, pg_presence>>

\* upsert_presence: values().update(...) of the row found, or values().append(...)
WritePresence(i) ==
    /\ procs[i].fn = "set_presence"
    /\ procs[i].pc = "write"
    /\ presence' = write_row(presence, procs[i].target_row, presence_values(procs[i].values))
    /\ procs' = Without(procs, i)
    /\ last' = [op |-> "set_presence", key |-> str(procs[i].values.user_id)]
    /\ UNCHANGED <<dialog_meta, dialogs, users, dialog_messages, user_data, messages, now,
                   faulty, pg_presence>>

NextConc ==
    \/ \E d \in MetaKeys :
          CallUpsertDialogMeta([meta_default(d) EXCEPT !.u1_last_open_at = utc_now_iso(now)])
    \/ \E i \in 1..Len(procs) : ScanDialogMeta(i)
    \/ \E i \in 1..Len(procs) : WriteDialogMeta(i)
    \/ \E u \in Users : CallSetPresence(u, STATE_DIALOG, Dialog1, MaxScreens + 2)
    \/ \E i \in 1..Len(procs) : ReadPresence(i)
    \/ \E i \in 1..Len(procs) : ScanPresence(i)
    \/ \E i \in 1..Len(procs) : WritePresence(i)

SpecConc == Init /\ [][NextConc]_vars

-----------------------------------------------------------------------------
(* The interleaved handlers: handle_text in a dialog and the dialog: button, *)
(* run concurrently.  A handler gives way to the others between its reads   *)
(* of the stores, its transport calls and its writes to the stores.  procs  *)
(* holds the handlers in flight with their local variables: the user, the   *)
(* dialog, the meta record read and the instant now_dt.                     *)

\* the world of a step becomes the state; procs and last are set by the step
Apply(w) ==
    /\ Len(w.messages) <= MaxConcMsgs
    /\ Len(w.dialog_messages) <= MaxTexts
    /\ presence' = w.presence
    /\ dialog_meta' = w.dialog_meta
    /\ dialog_messages' = w.dialog_messages
    /\ user_data' = w.user_data
    /\ messages' = w.messages
    /\ UNCHANGED <<dialogs, users, now, faulty, pg_presence>>

Handler(fn, pc, uid, dialog_id, meta, t) ==
    [fn |-> fn, pc |-> pc, uid |-> uid, dialog |-> dialog_id, meta |-> meta, t |-> t]

\* TextSave that goes on to the throttler without storing the text
TextUnsaved(u, text) ==
    /\ Len(procs) < MaxCalls
    /\ get_state(user_data[u]) = STATE_DIALOG
    /\ dict_get(user_data[u], "current_dialog_id", "") # ""
    /\ Apply(World(AllOk))
    /\ procs' = Append(procs, Handler("handle_text", "throttle", u,
                                      user_data[u]["current_dialog_id"],
                                      meta_default(user_data[u]["current_dialog_id"]), now))
    /\ UNCHANGED last

\* handle_text starts in the DIALOG state and saves the text
TextSave(u, text) ==
    /\ Len(procs) < MaxCalls
    /\ get_state(user_data[u]) = STATE_DIALOG
    /\ dict_get(user_data[u], "current_dialog_id", "") # ""
    /\ Apply([World(AllOk) EXCEPT !.dialog_messages =
                 save_dialog_message(@, user_data[u]["current_dialog_id"], u, text, now)])
    /\ procs' = Append(procs, Handler("handle_text", "throttle", u,
                                      user_data[u]["current_dialog_id"],
                                      meta_default(user_data[u]["current_dialog_id"]), now))
    /\ UNCHANGED last

\* what follows the reads of notify_new_dialog: the send, or the sender's screen
after_throttle(h, decision, meta, t) ==
    [h EXCEPT !.pc = IF decision = "notify" THEN "send" ELSE "render",
              !.meta = meta,
              !.t = t]

\* notify_new_dialog up to its early returns; the silent refresh runs here
TextThrottle(i) ==
    /\ procs[i].fn = "handle_text"
    /\ procs[i].pc = "throttle"
    /\ Apply(IF notify_decision(World(AllOk), now, procs[i].dialog, procs[i].uid) = "refresh"
             THEN notify_new_dialog(World(AllOk), now, procs[i].uid, procs[i].dialog, procs[i].uid)
             ELSE World(AllOk))
    /\ procs' = [procs EXCEPT ![i] =
                    after_throttle(@, notify_decision(World(AllOk), now, procs[i].dialog, procs[i].uid),
                                   get_dialog_meta(dialog_meta, procs[i].dialog), now)]
    /\ UNCHANGED last

\* the instant of the notification the target received last, None when last records none
previous_notification(target) ==
    IF last.op = "notify" /\ last.uid = target THEN last.t ELSE None

\* await app.bot.send_message(chat_id=target, ...)
TextSend(i) ==
    /\ procs[i].fn = "handle_text"
    /\ procs[i].pc = "send"
    /\ Apply(send_message(World(AllOk), notify_target(World(AllOk), procs[i].dialog, procs[i].uid),
                          "notify"))
    /\ procs' = [procs EXCEPT ![i].pc = "stamp"]
    /\ last' = [op |-> "notify",
                uid |-> notify_target(World(AllOk), procs[i].dialog, procs[i].uid),
                t |-> now,
                prev |-> previous_notification(
                             notify_target(World(AllOk), procs[i].dialog, procs[i].uid))]

\* meta[notify_field] = now_dt.isoformat(); upsert_dialog_meta(meta)
TextStamp(i) ==
    /\ procs[i].fn = "handle_text"
    /\ procs[i].pc = "stamp"
    /\ Apply(stamp_notify(World(AllOk), procs[i].t, procs[i].meta,
                          notify_field(get_dialog_users(dialogs, procs[i].dialog),
                                       notify_target(World(AllOk), procs[i].dialog, procs[i].uid))))
    /\ procs' = [procs EXCEPT ![i].pc = "render"]
    /\ UNCHANGED last

\* the render_dialog_screen that ends handle_text and the dialog: branch
HandlerRender(i) ==
    /\ procs[i].pc = "render"
    /\ Apply(render_dialog_screen(World(AllOk), now, procs[i].uid, procs[i].uid,
                                  procs[i].dialog, procs[i].uid))
    /\ procs' = Without(procs, i)
    /\ UNCHANGED last

\* the dialog: branch starts: the participants and the meta record are read, the open stamped
OpenRead(u, d) ==
    /\ Len(procs) < MaxCalls
    /\ procs' = Append(procs, Handler("dialog", "write", u, d,
                                      stamped_open(get_dialog_meta(dialog_meta, d), u,
                                                   get_dialog_users(dialogs, d), now),
                                      now))
    /\ UNCHANGED <<presence, dialog_meta, dialogs, users, dialog_messages, user_data,
                   messages, now, last, faulty, pg_presence>>

\* upsert_dialog_meta(meta) of the dialog: branch
OpenWrite(i) ==
    /\ procs[i].fn = "dialog"
    /\ procs[i].pc = "write"
    /\ Apply([World(AllOk) EXCEPT !.dialog_meta = upsert_dialog_meta(@, procs[i].meta)])
    /\ procs' = [procs EXCEPT ![i].pc = "render"]
    /\ UNCHANGED last

NextHandlers ==
    \/ \E u \in Users, text \in Texts : TextSave(u, text)
    \/ \E i \in 1..Len(procs) : TextThrottle(i)
    \/ \E i \in 1..Len(procs) : TextSend(i)
    \/ \E i \in 1..Len(procs) : TextStamp(i)
    \/ \E i \in 1..Len(procs) : HandlerRender(i)
    \/ \E u \in Users, d \in DialogIds : OpenRead(u, d)
    \/ \E i \in 1..Len(procs) : OpenWrite(i)
    \/ Tick

SpecHandlers == Init /\ [][NextHandlers]_vars

-----------------------------------------------------------------------------
(* Racing screen transitions: render_dialog_screen reads the old handle     *)
(* from the presence store, then awaits the delete and the send, then       *)
(* records the new handle.  A second transition may read the handle while   *)
(* the first one is awaiting.  procs holds the transitions in flight with   *)
(* the handle they read; alone tells that no other transition was in flight *)
(* during the whole transition.                                             *)

\* presence = get_presence(user_id); old_mid = presence.get("main_message_id")
RenderRead(u, d) ==
    /\ Len(procs) < MaxCalls
    /\ procs' = Append([i \in 1..Len(procs) |-> [procs[i] EXCEPT !.alone = FALSE]],
                       [fn |-> "render_dialog_screen", uid |-> u, dialog |-> d,
                        old_mid |-> get_presence(presence, u).main_message_id,
                        alone |-> procs = <<>>])
    /\ UNCHANGED <<presence, dialog_meta, dialogs, users, dialog_messages, user_data,
                   messages, now, last, faulty, pg_presence>>

\* the delete of the handle read, the send, set_presence and the session
RenderFinish(i) ==
    LET w == sent_dialog_screen(
                 send_message(drop_old_dialog_screen(World(AllOk), procs[i].uid,
                                                     procs[i].old_mid),
                              procs[i].uid, "main"),
                 now, procs[i].uid, procs[i].dialog, procs[i].uid)
    IN /\ Len(w.messages) <= MaxMsgs
       /\ presence' = w.presence
       /\ user_data' = w.user_data
       /\ messages' = w.messages
       /\ procs' = Without(procs, i)
       /\ last' = [op |-> "render", uid |-> procs[i].uid, alone |-> procs[i].alone]
       /\ UNCHANGED <<dialog_meta, dialogs, users, dialog_messages, now, faulty, pg_presence>>

NextRace ==
    \/ \E u \in Users, d \in DialogIds : RenderRead(u, d)
    \/ \E i \in 1..Len(procs) : RenderFinish(i)

SpecRace == Init /\ [][NextRace]_vars

-----------------------------------------------------------------------------
(* Claims *)

\* the main-screen messages of a user that are not deleted
LiveMain(u) ==
    {m \in 1..Len(messages) :
        messages[m].chat = u /\ messages[m].kind = "main" /\ messages[m].live}

\* C1: single-screen invariant.  After every completed show_screen,
\* show_recommendation and render_dialog_screen call (handlers run one at a
\* time, silent refreshes of the other participant included, no transport
\* failure) every user has at most one un-deleted main-screen message;
\* notification messages are not counted.
C1_SingleScreen ==
    \A u \in Users : Cardinality(LiveMain(u)) <= 1

-----------------------------------------------------------------------------
(* The throttler's contract, stated over the stored timestamps.  In every    *)
(* reachable state notify_new_dialog is applied to the state, for every      *)
(* dialog, sender and transport answer, and its result is compared with the  *)
(* state it started from.                                                    *)

\* a stored instant that is at most window seconds old at the current clock
Within(ts, window) == ts # None /\ now - ts <= window

LastOpen(d, du, target) ==
    iso_to_dt(get_dialog_meta(dialog_meta, d)[open_field(du, target)])

LastNotify(d, du, target) ==
    iso_to_dt(get_dialog_meta(dialog_meta, d)[notify_field(du, target)])

\* the stored presence record says: in this dialog, and recently
PresentIn(p, d) ==
    /\ p.state = STATE_DIALOG
    /\ p.current_dialog_id = d
    /\ Within(iso_to_dt(p.updated_at), PRESENCE_ACTIVE_SEC)

\* the notification messages a chat has received in a log of messages
Notifications(log, u) ==
    {m \in 1..Len(log) : log[m].chat = u /\ log[m].kind = "notify"}

\* the throttler run by the sender's handler on the current state
Notified(env, d, from) == notify_new_dialog(World(env), now, from, d, from)

\* C2: active-window suppression.  Whenever the target's last_open for the
\* dialog is at most ACTIVE_WINDOW_SEC old, notify_new_dialog sends nothing,
\* deletes nothing (no screen refresh), and leaves the dialog_meta sheet and
\* the presence sheet (updated_at included) as they were.
C2_Suppressed(w) ==
    /\ w.messages = messages
    /\ w.dialog_meta = dialog_meta
    /\ w.presence = presence

C2_Case(d, du, target) == Within(LastOpen(d, du, target), ACTIVE_WINDOW_SEC)

C2_ActiveWindow ==
    \A d \in DialogIds, from \in Users, env \in Envs :
        C2_Case(d, get_dialog_users(dialogs, d), notify_target(World(env), d, from))
            => C2_Suppressed(Notified(env, d, from))

\* a text was sent in a dialog the other participant opened within the window
C2_Witness ==
    /\ last.op = "text"
    /\ last.decision = "active_window"
    /\ \E u \in Users \ {last.uid} :
          Within(LastOpen(Dialog1, get_dialog_users(dialogs, Dialog1), u), ACTIVE_WINDOW_SEC)

\* C3: cooldown suppression.  Whenever the target's last_open is not within
\* ACTIVE_WINDOW_SEC but the target's last_notify is at most
\* NOTIFY_COOLDOWN_SEC old, notify_new_dialog sends nothing, refreshes no
\* screen (whatever the target's presence says) and leaves last_notify, with
\* the rest of the dialog_meta sheet, unchanged.
C3_Suppressed(w) ==
    /\ w.messages = messages
    /\ w.presence = presence
    /\ w.dialog_meta = dialog_meta
    /\ w.user_data = user_data

C3_Case(d, du, target) ==
    /\ ~Within(LastOpen(d, du, target), ACTIVE_WINDOW_SEC)
    /\ Within(LastNotify(d, du, target), NOTIFY_COOLDOWN_SEC)

C3_Cooldown ==
    \A d \in DialogIds, from \in Users, env \in Envs :
        C3_Case(d, get_dialog_users(dialogs, d), notify_target(World(env), d, from))
            => C3_Suppressed(Notified(env, d, from))

\* a text was sent while the other participant's last notification was recent
C3_Witness ==
    /\ last.op = "text"
    /\ last.decision = "cooldown"
    /\ \E u \in Users \ {last.uid} :
          /\ Within(LastNotify(Dialog1, get_dialog_users(dialogs, Dialog1), u), NOTIFY_COOLDOWN_SEC)
          /\ Cardinality(Notifications(messages, u)) = 1

\* C4: the notify path fires once per cooldown.  When the target's last_open
\* and last_notify are both outside their windows and the target is not
\* freshly present in the dialog, notify_new_dialog (its send succeeding)
\* sends exactly one notification to the target and sets the target's
\* last_notify to now; invoked again for the same dialog and target at any
\* instant within NOTIFY_COOLDOWN_SEC of that stamp, it sends nothing.
C4_Case(d, du, target) ==
    /\ ~Within(LastOpen(d, du, target), ACTIVE_WINDOW_SEC)
    /\ ~Within(LastNotify(d, du, target), NOTIFY_COOLDOWN_SEC)
    /\ ~PresentIn(get_presence(presence, target), d)

C4_OneMore(w, target) ==
    /\ Len(w.messages) = Len(messages) + 1
    /\ SubSeq(w.messages, 1, Len(messages)) = messages
    /\ w.messages[Len(w.messages)] = [chat |-> target, kind |-> "notify", live |-> TRUE]

C4_Stamped(w, d, du, target) ==
    get_dialog_meta(w.dialog_meta, d)[notify_field(du, target)] = utc_now_iso(now)

C4_Again(w, d, from) ==
    \A t \in ClockValues :
        (t >= now /\ t - now <= NOTIFY_COOLDOWN_SEC)
            => notify_new_dialog(w, t, from, d, from).messages = w.messages

C4_Fires(w, d, from, du, target) ==
    /\ C4_OneMore(w, target)
    /\ C4_Stamped(w, d, du, target)
    /\ C4_Again(w, d, from)

C4_NotifyOnce ==
    \A d \in DialogIds, from \in Users, env \in Envs :
        (env.sends[1] /\ C4_Case(d, get_dialog_users(dialogs, d), notify_target(World(env), d, from)))
            => C4_Fires(Notified(env, d, from), d, from,
                        get_dialog_users(dialogs, d), notify_target(World(env), d, from))

\* two texts at the same instant: the first notified the other participant,
\* the second was suppressed by the stamp the first one wrote
C4_Witness ==
    /\ last.op = "text"
    /\ last.decision = "cooldown"
    /\ Len(dialog_messages) = 2
    /\ \E u \in Users \ {last.uid} :
          /\ LastNotify(Dialog1, get_dialog_users(dialogs, Dialog1), u) = now
          /\ Cardinality(Notifications(messages, u)) = 1

\* C5: a silent refresh does not consume the cooldown.  When neither window
\* suppresses and the target's presence has state DIALOG, this dialog as
\* current_dialog_id and an updated_at at most PRESENCE_ACTIVE_SEC old,
\* notify_new_dialog does what render_dialog_screen does for the target (a
\* new main message in the target's chat when the send succeeds), sends no
\* notification and leaves the dialog_meta sheet unchanged.
C5_Case(d, du, target) ==
    /\ ~Within(LastOpen(d, du, target), ACTIVE_WINDOW_SEC)
    /\ ~Within(LastNotify(d, du, target), NOTIFY_COOLDOWN_SEC)
    /\ PresentIn(get_presence(presence, target), d)

C5_Rendered(w, target) ==
    /\ Len(w.messages) = Len(messages) + 1
    /\ w.messages[Len(w.messages)] = [chat |-> target, kind |-> "main", live |-> TRUE]
    /\ get_presence(w.presence, target).main_message_id = str(Len(w.messages))

C5_Refreshed(w, env, d, from, target) ==
    /\ w = render_dialog_screen(World(env), now, None, from, d, target)
    /\ env.sends[1] => C5_Rendered(w, target)
    /\ Notifications(w.messages, target) = Notifications(messages, target)
    /\ w.dialog_meta = dialog_meta

C5_SilentRefresh ==
    \A d \in DialogIds, from \in Users, env \in Envs :
        C5_Case(d, get_dialog_users(dialogs, d), notify_target(World(env), d, from))
            => C5_Refreshed(Notified(env, d, from), env, d, from,
                            notify_target(World(env), d, from))

\* a text refreshed the screen of the other participant, who got no notification
C5_Witness ==
    /\ last.op = "text"
    /\ last.decision = "refresh"
    /\ \E u \in Users \ {last.uid} :
          /\ Notifications(messages, u) = {}
          /\ LastNotify(Dialog1, get_dialog_users(dialogs, Dialog1), u) = None
          /\ messages[Len(messages) - 1] = [chat |-> u, kind |-> "main", live |-> TRUE]

\* C6: idempotent upsert.  Two upsert_dialog_meta calls one after the other
\* for the same dialog_id, unseen before the first, leave exactly one row for
\* that id, and it holds the second call's values; and every upsert (of
\* dialog_meta, and of presence through set_presence) whose key already has
\* a row leaves the number of rows, the position of the key's row and every
\* other row as they were.
C6_SecondWins ==
    (last.op = "upsert_dialog_meta" /\ last.second) =>
        /\ Cardinality(RowsOf(dialog_meta, last.arg.dialog_id)) = 1
        /\ get_dialog_meta(dialog_meta, last.arg.dialog_id) = last.arg

C6_InPlace(before, after, cell) ==
    RowsOf(before, cell) # {} =>
        /\ Len(after) = Len(before)
        /\ RowsOf(after, cell) = RowsOf(before, cell)
        /\ \A i \in (1..Len(before)) \ RowsOf(before, cell) : after[i] = before[i]

C6_Call ==
    /\ last'.op = "upsert_dialog_meta" =>
          /\ C6_InPlace(dialog_meta, dialog_meta', last'.arg.dialog_id)
          /\ get_dialog_meta(dialog_meta', last'.arg.dialog_id) = last'.arg
    /\ last'.op = "set_presence" =>
          C6_InPlace(presence, presence', str(last'.uid))

C6_IdempotentUpsert == [](C6_SecondWins) /\ [][C6_Call]_vars

\* the second of two upserts with different values for a dialog_id that was
\* unseen before the first, in a sheet that holds another dialog's row too
C6_Witness ==
    /\ last.op = "upsert_dialog_meta"
    /\ last.second
    /\ ~last.fresh
    /\ Len(dialog_meta) = 2
    /\ dialog_meta[1][1] # last.arg.dialog_id

\* C7: missing-record defaults.  get_presence for a user_id with no stored
\* row and get_dialog_meta for a dialog_id with no stored row return a record
\* that carries the requested key and has every other field empty, in the
\* sheet store and in the SQL store alike; no getter returns an absent value.
C7_SheetDefaults ==
    /\ \A u \in Users :
          RowsOf(presence, str(u)) = {} =>
              get_presence(presence, u) =
                  [user_id |-> u, state |-> "", current_dialog_id |-> "",
                   main_message_id |-> "", updated_at |-> ""]
    /\ \A d \in MetaKeys :
          RowsOf(dialog_meta, d) = {} =>
              get_dialog_meta(dialog_meta, d) =
                  [dialog_id |-> d, u1_last_open_at |-> "", u2_last_open_at |-> "",
                   u1_last_notify_at |-> "", u2_last_notify_at |-> ""]

C7_DbDefaults ==
    (last.op = "db_get_presence" /\ ~last.stored) =>
        /\ last.row # NoRow
        /\ last.row.user_id = last.uid

C7_MissingDefaults == C7_SheetDefaults /\ C7_DbDefaults

\* C8: presence set is a full replace that round-trips.  After a set of
\* (user, state, current_dialog_id, handle) the get of that user returns that
\* state, that dialog id and that handle (the empty cell for an absent
\* handle), whatever was stored before, and updated_at is the time of the
\* write; in the sheet store and in the SQL store.
C8_SheetRoundTrip(p) ==
    /\ p.state = last.state
    /\ p.current_dialog_id = last.current_dialog_id
    /\ p.main_message_id =
          (IF last.main_message_id = None THEN "" ELSE str(last.main_message_id))
    /\ p.updated_at = utc_now_iso(last.t)

C8_DbRoundTrip(row) ==
    /\ row # NoRow
    /\ row.state = last.state
    /\ row.current_dialog_id = last.current_dialog_id
    /\ row.main_message_id = last.main_message_id
    /\ row.updated_at = last.t

C8_FullReplace ==
    /\ last.op = "set_presence" => C8_SheetRoundTrip(get_presence(presence, last.uid))
    /\ last.op = "db_upsert_presence" => C8_DbRoundTrip(db_get_presence(pg_presence, last.uid))

\* C9: key uniqueness in the stores.  In every state reachable by
\* interleaving the steps of concurrently running store calls, the presence
\* sheet holds at most one row per user_id and the dialog_meta sheet at most
\* one row per dialog_id.
C9_KeyUniqueness ==
    /\ \A u \in Users : Cardinality(RowsOf(presence, str(u))) <= 1
    /\ \A d \in MetaKeys : Cardinality(RowsOf(dialog_meta, d)) <= 1

\* C17: the notify cooldown is a minimum interval under concurrency.  Under
\* every interleaving of the handlers, a notification sent to a user who was
\* notified before follows the previous one by at least NOTIFY_COOLDOWN_SEC.
C17_MinimumInterval ==
    (last.op = "notify" /\ last.prev # None) => last.t - last.prev >= NOTIFY_COOLDOWN_SEC

\* C10: show_screen refuses the DIALOG state.  Invoked while the user's
\* session state is DIALOG, show_screen deletes nothing, sends nothing (it
\* makes no transport call at all) and writes nothing: the messages, the
\* session and the presence sheet are as they were.
C10_RefusesDialog ==
    \A u \in Users, env \in Envs :
        get_state(user_data[u]) = STATE_DIALOG
            => show_screen(World(env), now, u) = World(env)

\* profile:view was pressed by a user inside a dialog, the dialog screen stays
C10_Witness ==
    /\ last.op = "profile"
    /\ get_state(user_data[last.uid]) = STATE_DIALOG
    /\ LiveMain(last.uid) # {}
    /\ get_presence(presence, last.uid).state = STATE_DIALOG

\* C11: a render_dialog_screen(user, dialog) that completes, run by the
\* user's own action (update and context of the user) or system-initiated
\* by the other participant's message (no update, the sender's context),
\* leaves the user's presence record with state DIALOG, the dialog as
\* current_dialog_id and, as main_message_id, the handle of the message it
\* has just sent to the user, whatever the record held before.
C11_InDialog(w, u, d) ==
    /\ ~w.raised
    /\ Len(w.messages) = Len(messages) + 1
    /\ w.messages[Len(w.messages)] = [chat |-> u, kind |-> "main", live |-> TRUE]
    /\ get_presence(w.presence, u).state = STATE_DIALOG
    /\ get_presence(w.presence, u).current_dialog_id = d
    /\ get_presence(w.presence, u).main_message_id = str(Len(w.messages))

C11_RenderSetsPresence ==
    \A u \in Users, d \in DialogIds, env \in Envs :
        env.sends[1] =>
            /\ C11_InDialog(render_dialog_screen(World(env), now, u, u, d, u), u, d)
            /\ \A from \in Users \ {u} :
                  C11_InDialog(render_dialog_screen(World(env), now, None, from, d, u), u, d)

\* a text has silently refreshed the other participant, whose presence was
\* rewritten with the handle of the refreshed screen
C11_Witness ==
    /\ last.op = "text"
    /\ last.decision = "refresh"
    /\ \E u \in Users \ {last.uid} :
          /\ get_presence(presence, u).state = STATE_DIALOG
          /\ get_presence(presence, u).current_dialog_id = Dialog1
          /\ get_presence(presence, u).main_message_id = str(Len(messages) - 1)
          /\ get_presence(presence, u).updated_at = utc_now_iso(now)

\* C12: a failed delete never aborts a transition.  When the removal of the
\* previous main message fails in show_screen, show_recommendation or
\* render_dialog_screen, the operation raises nothing, sends the new screen
\* and records its handle in the session and in the presence record.
C12_Shown(w, u) ==
    /\ ~w.raised
    /\ Len(w.messages) = Len(messages) + 1
    /\ SubSeq(w.messages, 1, Len(messages)) = messages
    /\ w.messages[Len(w.messages)] = [chat |-> u, kind |-> "main", live |-> TRUE]
    /\ get_main_message_id(w.user_data[u]) = Len(w.messages)
    /\ get_presence(w.presence, u).main_message_id = str(Len(w.messages))

C12_FailedDelete ==
    \A u \in Users, d \in DialogIds :
        /\ get_state(user_data[u]) # STATE_DIALOG
              => C12_Shown(show_screen(World(DeleteFails), now, u), u)
        /\ C12_Shown(show_recommendation(World(DeleteFails), now, u), u)
        /\ C12_Shown(render_dialog_screen(World(DeleteFails), now, u, u, d, u), u)

\* a handler whose delete failed: the old screen is still there, the new one
\* was sent and is the one the session and the presence record hold
C12_Witness ==
    /\ faulty
    /\ last.op \in {"go", "dialog"}
    /\ Cardinality(LiveMain(last.uid)) = 2
    /\ Len(messages) \in LiveMain(last.uid)
    /\ get_main_message_id(user_data[last.uid]) = Len(messages)
    /\ get_presence(presence, last.uid).main_message_id = str(Len(messages))

\* C13: a failed send leaves the previous screen intact.  When the send of
\* the new screen fails inside show_screen, show_recommendation or
\* render_dialog_screen, the user's previous main message is still live and
\* the session handle and the presence record are as they were.
C13_Intact(w, u) ==
    /\ \A m \in LiveMain(u) : w.messages[m].live
    /\ get_main_message_id(w.user_data[u]) = get_main_message_id(user_data[u])
    /\ get_presence(w.presence, u) = get_presence(presence, u)

C13_FailedSend ==
    \A u \in Users, d \in DialogIds :
        /\ C13_Intact(show_screen(World(SendFails), now, u), u)
        /\ C13_Intact(show_recommendation(World(SendFails), now, u), u)
        /\ C13_Intact(render_dialog_screen(World(SendFails), now, u, u, d, u), u)

\* C14: a failed notification delivery does not consume the cooldown.  When
\* handle_text reaches the notify path and the notification send fails, the
\* text stays saved in dialog_messages, nothing is sent, the dialog_meta
\* sheet (the target's last_notify in it) is not written, and the throttler
\* run again for that dialog at any later instant does not answer cooldown.
C14_NotConsumed(w, u, d, text) ==
    /\ w.raised
    /\ w.dialog_messages = Append(dialog_messages, <<d, str(u), text, utc_now_iso(now)>>)
    /\ w.messages = messages
    /\ w.dialog_meta = dialog_meta
    /\ \A t \in ClockValues : t >= now => notify_decision(w, t, d, u) # "cooldown"

C14_Case(u, d) ==
    /\ get_state(user_data[u]) = STATE_DIALOG
    /\ dict_get(user_data[u], "current_dialog_id", "") = d
    /\ C4_Case(d, get_dialog_users(dialogs, d), notify_target(World(SendFails), d, u))

C14_FailedNotify ==
    \A u \in Users, d \in DialogIds, text \in Texts :
        C14_Case(u, d) => C14_NotConsumed(handle_text(World(SendFails), now, u, text), u, d, text)

\* two texts in a row: the notification of the first failed, the second was
\* evaluated afresh and notified the other participant
C14_Witness ==
    /\ faulty
    /\ last.op = "text"
    /\ last.decision = "notify"
    /\ Len(dialog_messages) = 2
    /\ \E u \in Users \ {last.uid} :
          /\ Cardinality(Notifications(messages, u)) = 1
          /\ LiveMain(u) = {}

C16_OnlyTarget(w, d, from, du) ==
    /\ \A m \in (Len(messages) + 1)..Len(w.messages) :
          w.messages[m].chat \in {du[1], du[2]} \ {from}
    /\ \A m \in 1..Len(messages) : messages[m].chat = from => w.messages[m] = messages[m]
    /\ get_dialog_meta(w.dialog_meta, d)[notify_field(du, from)]
          = get_dialog_meta(dialog_meta, d)[notify_field(du, from)]
    /\ get_presence(w.presence, from) = get_presence(presence, from)

C16_OtherParticipant ==
    \A d \in DialogIds, from \in Users, env \in Envs :
        C16_OnlyTarget(Notified(env, d, from), d, from, get_dialog_users(dialogs, d))

\* a text has notified the other participant: the stamp and the notification
\* are the other participant's, the sender has neither
C16_Witness ==
    /\ last.op = "text"
    /\ last.decision = "notify"
    /\ Notifications(messages, last.uid) = {}
    /\ LastNotify(Dialog1, get_dialog_users(dialogs, Dialog1), last.uid) = None
    /\ \E u \in Users \ {last.uid} :
          /\ Notifications(messages, u) # {}
          /\ LastNotify(Dialog1, get_dialog_users(dialogs, Dialog1), u) # None

\* C18: exactly one outcome per decision.  Every notify_new_dialog that
\* completes for a dialog with resolvable participants has exactly one of
\* three outcomes: skip (nothing sent, nothing written), silent refresh (one
\* new main message for the target, no notification) or notification (one
\* notification for the target, no screen touched); and the target's
\* last_notify is written if and only if the outcome is the notification.
C18_Skip(w) ==
    /\ w.messages = messages
    /\ w.presence = presence

C18_Refresh(w, target) ==
    /\ Len(w.messages) = Len(messages) + 1
    /\ w.messages[Len(w.messages)] = [chat |-> target, kind |-> "main", live |-> TRUE]
    /\ Notifications(w.messages, target) = Notifications(messages, target)

C18_Notify(w, target) ==
    /\ w.messages = Append(messages, [chat |-> target, kind |-> "notify", live |-> TRUE])
    /\ w.presence = presence

C18_Outcomes(w, target) ==
    {o \in {"skip", "refresh", "notify"} :
        \/ o = "skip" /\ C18_Skip(w)
        \/ o = "refresh" /\ C18_Refresh(w, target)
        \/ o = "notify" /\ C18_Notify(w, target)}

C18_Stamped(w, d, du, target) ==
    /\ w.dialog_meta # dialog_meta
    /\ get_dialog_meta(w.dialog_meta, d)[notify_field(du, target)] = utc_now_iso(now)

C18_One(w, outcomes, d, du, target) ==
    /\ Cardinality(outcomes) = 1
    /\ outcomes = {"notify"} <=> C18_Stamped(w, d, du, target)
    /\ outcomes # {"notify"} => w.dialog_meta = dialog_meta

C18_Completed(w, d, du, target) ==
    ~w.raised => C18_One(w, C18_Outcomes(w, target), d, du, target)

C18_OneOutcome ==
    \A d \in DialogIds, from \in Users, env \in Envs :
        C18_Completed(Notified(env, d, from), d, get_dialog_users(dialogs, d),
                      notify_target(World(env), d, from))

\* a text has notified a participant who has no screen at all: one
\* notification, stamped now, and no main message in that chat
C18_Witness ==
    /\ last.op = "text"
    /\ last.decision = "notify"
    /\ \E u \in Users \ {last.uid} :
          /\ \A m \in 1..Len(messages) : messages[m].chat = u => messages[m].kind = "notify"
          /\ Cardinality(Notifications(messages, u)) = 1
          /\ LastNotify(Dialog1, get_dialog_users(dialogs, Dialog1), u) = now

\* C19: the decision depends only on the target's data.  Two runs of
\* notify_new_dialog at the same instant, for the same dialog and acting
\* user, from stores that agree on everything but the acting user's own
\* last_open, last_notify and presence record, take the same branch, send
\* the same messages and leave the same values in the target's last_open,
\* last_notify and presence record.
\* values of the acting user's own last_open, last_notify and presence record:
\* blank and absent from the dialog, fresh and present in it, and the two mixed
C19_Own ==
    {<<"", "", STATE_IDLE, "">>,
     <<utc_now_iso(now), utc_now_iso(now), STATE_DIALOG, Dialog1>>,
     <<"", utc_now_iso(now), STATE_DIALOG, Dialog1>>,
     <<utc_now_iso(now), "", STATE_IDLE, "">>}

\* the stores with the acting user's own fields replaced
C19_Variant(w, d, du, from, own) ==
    [w EXCEPT !.dialog_meta =
                  upsert_dialog_meta(@, [get_dialog_meta(@, d) EXCEPT
                                            ![open_field(du, from)] = own[1],
                                            ![notify_field(du, from)] = own[2]]),
              !.presence = set_presence(@, from, own[3], own[4], None, now)]

\* what a run shows of the target
C19_View(w, d, du, target) ==
    <<w.messages,
      get_dialog_meta(w.dialog_meta, d)[open_field(du, target)],
      get_dialog_meta(w.dialog_meta, d)[notify_field(du, target)],
      get_presence(w.presence, target)>>

C19_Run(w, d, du, from) ==
    <<notify_decision(w, now, d, from),
      C19_View(notify_new_dialog(w, now, from, d, from), d, du, target_of(du, from))>>

C19_SameRun(w, run, d, du, from) ==
    \A own \in C19_Own : C19_Run(C19_Variant(w, d, du, from, own), d, du, from) = run

C19_Pair(w, d, du, from) == C19_SameRun(w, C19_Run(w, d, du, from), d, du, from)

C19_TargetOnly ==
    \A d \in DialogIds, from \in Users :
        C19_Pair(World(AllOk), d, get_dialog_users(dialogs, d), from)

\* a text has notified the other participant although the sender's own open
\* is within the active window and the sender is freshly present in the dialog
C19_Witness ==
    /\ last.op = "text"
    /\ last.decision = "notify"
    /\ Within(LastOpen(Dialog1, get_dialog_users(dialogs, Dialog1), last.uid), ACTIVE_WINDOW_SEC)
    /\ PresentIn(get_presence(presence, last.uid), Dialog1)
    /\ \E u \in Users \ {last.uid} : Notifications(messages, u) # {}

\* C20: current_dialog_id is empty outside a dialog.  After every completed
\* handler, for every user, a presence record whose state is not DIALOG has
\* an empty current_dialog_id.
C20_EmptyOutsideDialog ==
    \A u \in Users :
        get_presence(presence, u).state # STATE_DIALOG
            => get_presence(presence, u).current_dialog_id = ""

\* C21: session and presence agree on the main message.  Between handlers,
\* for every user whose session holds a main_message_id, that handle is the
\* main_message_id stored in the user's presence record, also after the
\* user's screen was re-rendered by a silent refresh run inside the other
\* participant's handler.
C21_SessionMatchesPresence ==
    \A u \in Users :
        dict_get(user_data[u], "main_message_id", None) # None
            => get_presence(presence, u).main_message_id = str(user_data[u]["main_message_id"])

\* C22: session state is never written on behalf of another user.  The
\* throttler run inside the sender's handler, silent refresh of the target
\* included, changes none of the sender's session fields (state,
\* current_dialog_id, main_message_id), and the sender's session never holds
\* the handle of a message that was sent to another chat.
C22_OwnMessage(w, u) ==
    dict_get(w.user_data[u], "main_message_id", None) # None
        => w.messages[w.user_data[u]["main_message_id"]].chat = u

C22_Untouched(w, from) == w.user_data[from] = user_data[from] /\ C22_OwnMessage(w, from)

\* handle_text calls the throttler for a sender whose session is in the dialog
C22_SenderSessionUntouched ==
    \A d \in DialogIds, from \in Users :
        (get_state(user_data[from]) = STATE_DIALOG
            /\ dict_get(user_data[from], "current_dialog_id", "") = d)
        => C22_Untouched(Notified(AllOk, d, from), from)

\* C23: updated_at is monotonic per user.  Over every presence write for a
\* user, by the user's own handlers (show_screen, show_recommendation,
\* render_dialog_screen, the go:dialogs reset) or by a silent refresh from
\* the other participant's handler, the stored updated_at never decreases.
C23_UpdatedAt(table, u) == iso_to_dt(get_presence(table, u).updated_at)

C23_Monotonic ==
    [][\A u \in Users : C23_UpdatedAt(presence', u) >= C23_UpdatedAt(presence, u)]_vars

\* the other participant's text has refreshed a user's record at a later instant
C23_Witness ==
    /\ last.op = "text"
    /\ last.decision = "refresh"
    /\ now > 0
    /\ \E u \in Users \ {last.uid} : C23_UpdatedAt(presence, u) = now

\* C24: show_screen falls back to the presence store for the old handle.
\* When the user's session holds no main-message handle and the user's
\* presence record holds the handle of a live message, show_screen removes
\* that message before it sends the new screen.
C24_Removed(w, mid) == ~w.messages[mid].live

C24_Lost(u, mid) ==
    /\ get_state(user_data[u]) # STATE_DIALOG
    /\ get_main_message_id(user_data[u]) = None
    /\ mid \in 1..Len(messages)
    /\ messages[mid].chat = u
    /\ messages[mid].live

C24_PresenceFallback ==
    \A u \in Users :
        C24_Lost(u, int(get_presence(presence, u).main_message_id))
            => C24_Removed(show_screen(World(AllOk), now, u),
                           int(get_presence(presence, u).main_message_id))

\* C25: no return to onboarding.  For a user with a profile row, no sequence
\* of /start commands, button presses and text messages puts the user's
\* session state or presence state into an ONBOARDING_* state.
C25_Onboarding ==
    {STATE_ONBOARDING_NAME, STATE_ONBOARDING_AGE, STATE_ONBOARDING_CITY,
     STATE_ONBOARDING_ABOUT, STATE_ONBOARDING_PHOTO_MAIN, STATE_ONBOARDING_PHOTO_EXTRA,
     STATE_ONBOARDING_GENDER, STATE_ONBOARDING_LOOKING_GENDER, STATE_ONBOARDING_INTERESTS,
     STATE_ONBOARDING_LOOKING_AGE_MIN, STATE_ONBOARDING_LOOKING_AGE_MAX}

C25_NoOnboarding ==
    \A u \in Users :
        load_user_profile(users, u) # NoUser
            => /\ get_presence(presence, u).state \notin C25_Onboarding
               /\ dict_get(user_data[u], "state", STATE_IDLE) \notin C25_Onboarding

\* C26: silence is bounded by one throttling interval.  Under every
\* interleaving of the handlers, the throttler skips only if the target
\* opened the dialog within ACTIVE_WINDOW or was notified within
\* NOTIFY_COOLDOWN: the stored instants are never in the future, a stored
\* last_notify stands for a notification that was delivered, and once both
\* windows have expired the next message notifies or refreshes the target.
C26_Skips == {"unresolved", "active_window", "cooldown"}

C26_Honest(last_open, last_notify, target) ==
    /\ last_open <= now
    /\ last_notify <= now
    /\ last_notify # None => Notifications(messages, target) # {}

C26_Bounded(decision, last_open, last_notify, target) ==
    /\ C26_Honest(last_open, last_notify, target)
    /\ decision \in C26_Skips
           => Within(last_open, ACTIVE_WINDOW_SEC) \/ Within(last_notify, NOTIFY_COOLDOWN_SEC)

C26_For(d, from, du) ==
    C26_Bounded(notify_decision(World(AllOk), now, d, from),
                LastOpen(d, du, target_of(du, from)),
                LastNotify(d, du, target_of(du, from)),
                target_of(du, from))

C26_BoundedSilence ==
    \A d \in DialogIds, from \in Users : C26_For(d, from, get_dialog_users(dialogs, d))

\* both windows of the target have expired and a handler, interleaved with
\* another one, has decided to notify
C26_Witness ==
    /\ Len(procs) = 2
    /\ \E i \in 1..Len(procs) :
          /\ procs[i].fn = "handle_text"
          /\ procs[i].pc = "send"
          /\ LastNotify(procs[i].dialog, get_dialog_users(dialogs, procs[i].dialog),
                        notify_target(World(AllOk), procs[i].dialog, procs[i].uid)) # None
          /\ ~Within(LastNotify(procs[i].dialog, get_dialog_users(dialogs, procs[i].dialog),
                                notify_target(World(AllOk), procs[i].dialog, procs[i].uid)),
                     NOTIFY_COOLDOWN_SEC)

\* C27: the three windows are inclusive at their bounds.  A call exactly
\* ACTIVE_WINDOW_SEC after the target's last open is suppressed and one
\* second later the active window no longer suppresses it; a call exactly
\* NOTIFY_COOLDOWN_SEC after the last notification is suppressed and one
\* second later the cooldown no longer suppresses it; a presence record of
\* the dialog exactly PRESENCE_ACTIVE_SEC old is fresh (silent refresh) and
\* one second older it is not (notification).
C27_Age(ts) == IF ts = None THEN None ELSE now - ts

C27_Unsuppressed(c) ==
    /\ C27_Age(c.last_open) \notin 0..ACTIVE_WINDOW_SEC
    /\ C27_Age(c.last_notify) \notin 0..NOTIFY_COOLDOWN_SEC
    /\ c.p.state = STATE_DIALOG
    /\ c.p.current_dialog_id = Dialog1

C27_Bounds(c) ==
    /\ C27_Age(c.last_open) = ACTIVE_WINDOW_SEC => c.decision = "active_window"
    /\ C27_Age(c.last_open) = ACTIVE_WINDOW_SEC + 1 => c.decision # "active_window"
    /\ C27_Age(c.last_notify) = NOTIFY_COOLDOWN_SEC
           => c.decision \in {"active_window", "cooldown"}
    /\ C27_Age(c.last_notify) = NOTIFY_COOLDOWN_SEC + 1 => c.decision # "cooldown"
    /\ (C27_Unsuppressed(c) /\ C27_Age(iso_to_dt(c.p.updated_at)) = PRESENCE_ACTIVE_SEC)
           => c.decision = "refresh"
    /\ (C27_Unsuppressed(c) /\ C27_Age(iso_to_dt(c.p.updated_at)) = PRESENCE_ACTIVE_SEC + 1)
           => c.decision = "notify"

C27_InclusiveBounds == last.op = "throttle" => C27_Bounds(last)

\* a call exactly at the end of the cooldown, outside the active window
C27_Witness ==
    /\ last.op = "throttle"
    /\ last.last_open = None
    /\ C27_Age(last.last_notify) = NOTIFY_COOLDOWN_SEC
    /\ last.decision = "cooldown"

\* C28: never-set timestamps do not suppress.  When the target has never
\* opened the dialog and has never been notified for it (the cells are empty
\* or missing from the row) and has no fresh presence in the dialog, a
\* message of the other participant produces a notification, and afterwards
\* the dialog has exactly one meta row, in which the target's last_notify
\* is set and the target's last_open is still empty.
C28_Case(d, from, du, target) ==
    /\ get_state(user_data[from]) = STATE_DIALOG
    /\ dict_get(user_data[from], "current_dialog_id", "") = d
    /\ get_dialog_meta(dialog_meta, d)[open_field(du, target)] = ""
    /\ get_dialog_meta(dialog_meta, d)[notify_field(du, target)] = ""
    /\ ~PresentIn(get_presence(presence, target), d)

C28_Notified(w, d, du, target) ==
    /\ Len(w.messages) = Len(messages) + 1
    /\ w.messages[Len(w.messages)] = [chat |-> target, kind |-> "notify", live |-> TRUE]
    /\ Cardinality(RowsOf(w.dialog_meta, d)) = 1
    /\ get_dialog_meta(w.dialog_meta, d)[notify_field(du, target)] = utc_now_iso(now)
    /\ get_dialog_meta(w.dialog_meta, d)[open_field(du, target)] = ""

C28_First(d, from, du, target) ==
    C28_Case(d, from, du, target) => C28_Notified(Notified(AllOk, d, from), d, du, target)

C28_NeverSet ==
    \A d \in DialogIds, from \in Users :
        C28_First(d, from, get_dialog_users(dialogs, d),
                  target_of(get_dialog_users(dialogs, d), from))

\* the first text of a dialog has notified a target who never opened it
C28_Witness ==
    /\ last.op = "text"
    /\ last.decision = "notify"
    /\ Len(dialog_messages) = 1
    /\ \E u \in Users \ {last.uid} :
          /\ LastOpen(Dialog1, get_dialog_users(dialogs, Dialog1), u) = None
          /\ LastNotify(Dialog1, get_dialog_users(dialogs, Dialog1), u) = now
          /\ Cardinality(Notifications(messages, u)) = 1
          /\ Cardinality(RowsOf(dialog_meta, Dialog1)) = 1

\* C29: ordering inside the dialog text handler.  The text is persisted
\* first, then the throttler runs, then the sender's screen is re-rendered:
\* a throttler call becomes pending only by persisting a message and every
\* persisted message makes exactly one call pending; a pending call is
\* taken once and its handler goes on; a message is sent only by a
\* throttler call (silent refresh), by a handler that has passed the
\* throttler (notification), or by the render that ends a handler; the
\* handler that ends has passed the throttler.
C29_At(ps, pc) ==
    Cardinality({i \in 1..Len(ps) : ps[i].fn = "handle_text" /\ ps[i].pc = pc})

C29_Step(pending, pending2, sending, sending2) ==
    /\ pending2 > pending
           => /\ pending2 = pending + 1
              /\ Len(dialog_messages') = Len(dialog_messages) + 1
              /\ messages' = messages
    /\ dialog_messages' # dialog_messages
           => /\ pending2 = pending + 1
              /\ SubSeq(dialog_messages', 1, Len(dialog_messages)) = dialog_messages
    /\ pending2 < pending => pending2 = pending - 1 /\ Len(procs') = Len(procs)
    /\ messages' # messages
           => \/ pending2 = pending - 1
              \/ sending2 = sending - 1
              \/ Len(procs') = Len(procs) - 1
    /\ Len(procs') < Len(procs) => pending2 = pending /\ sending2 = sending

C29_Ordering ==
    [][C29_Step(C29_At(procs, "throttle"), C29_At(procs', "throttle"),
                C29_At(procs, "send"), C29_At(procs', "send"))]_vars

\* two texts are stored, a notification has been issued, and a handler that
\* has passed the throttler is about to re-render the sender's screen
C29_Witness ==
    /\ Len(dialog_messages) = 2
    /\ \E i \in 1..Len(procs) :
          /\ procs[i].fn = "handle_text"
          /\ procs[i].pc = "render"
          /\ Notifications(messages, notify_target(World(AllOk), procs[i].dialog, procs[i].uid)) # {}

\* C30: opening a dialog stamps only the opener.  When a participant opens a
\* dialog with the dialog:<id> button or with rec:start, their own
\* last_open_at is set to now, before the dialog screen is rendered, and the
\* other participant's last_open_at and both last_notify_at keep their
\* previous values.
C30_Stamped(w, d, field) ==
    /\ get_dialog_meta(w.dialog_meta, d)[field] = utc_now_iso(now)
    /\ \A k \in DOMAIN get_dialog_meta(dialog_meta, d) \ {field} :
          get_dialog_meta(w.dialog_meta, d)[k] = get_dialog_meta(dialog_meta, d)[k]

\* the stamp is there while the screen is not yet sent, and after the handler
C30_Button(u, d, du) ==
    /\ stamp_open(World(AllOk), now, u, d).messages = messages
    /\ C30_Stamped(stamp_open(World(AllOk), now, u, d), d, open_field(du, u))
    /\ C30_Stamped(callback(World(AllOk), now, u, <<"dialog", d>>), d, open_field(du, u))

C30_RecStart(u, rec) ==
    (get_state(user_data[u]) = STATE_RECOMMENDATION /\ rec # NoUser)
        => C30_Stamped(callback(World(AllOk), now, u, <<"rec", "start", str(rec.user_id)>>),
                       new_dialog_id(u, rec.user_id, now),
                       open_field(<<u, rec.user_id>>, u))

C30_StampsOpener ==
    /\ \A u \in Users, d \in {dialogs[i][1] : i \in 1..Len(dialogs)} :
          C30_Button(u, d, get_dialog_users(dialogs, d))
    /\ \A u \in Users :
          C30_RecStart(u, find_recommendation(users, u, load_user_profile(users, u)))

\* a participant has opened the dialog after the other one: the other one's
\* earlier last_open is still stored
C30_Witness ==
    /\ last.op = "dialog"
    /\ LastOpen(Dialog1, get_dialog_users(dialogs, Dialog1), last.uid) = now
    /\ \E u \in Users \ {last.uid} :
          /\ LastOpen(Dialog1, get_dialog_users(dialogs, Dialog1), u) # None
          /\ LastOpen(Dialog1, get_dialog_users(dialogs, Dialog1), u) < now

\* C31: no lost update on the dialog meta record.  Under every interleaving
\* of a dialog open with a notification stamp or another open for the same
\* dialog, each of the four timestamps of the record is non-decreasing: a
\* stored last_open_at or last_notify_at is never reverted to an earlier or
\* empty value by another handler's whole-row write.
C31_Stamps ==
    {"u1_last_open_at", "u2_last_open_at", "u1_last_notify_at", "u2_last_notify_at"}

C31_NoLostUpdate ==
    [][\A d \in DialogIds, k \in C31_Stamps :
          iso_to_dt(get_dialog_meta(dialog_meta', d)[k])
              >= iso_to_dt(get_dialog_meta(dialog_meta, d)[k])]_vars

\* C32: a stale handle self-heals.  After two screen transitions of a user
\* have raced (both read the same old handle before either wrote), once the
\* next transition of that user has run to completion without overlap,
\* exactly one main message is live for the user and the presence handle
\* refers to it.
C32_SelfHeals ==
    (last.op = "render" /\ last.alone)
        => /\ Cardinality(LiveMain(last.uid)) = 1
           /\ int(get_presence(presence, last.uid).main_message_id) \in LiveMain(last.uid)

\* C33: leaving a dialog ends silent refresh.  After go:dialogs,
\* go:recommendations or /start of a user has completed, the presence store
\* no longer shows the user in any dialog; while it does not show the user in
\* a dialog, a message of the other participant never takes the silent
\* refresh path for that user; and no step other than the user opening the
\* dialog again (dialog:<id>, or rec:start for a new one) puts the user back
\* into it, whatever other screens the user views meanwhile.
C33_Leaves(l) ==
    l.op = "start" \/ (l.op = "go" /\ l.arg \in {"dialogs", "recommendations"})

C33_Opens(l, u, d) ==
    /\ l.op \in {"dialog", "rec"}
    /\ l.uid = u
    /\ l.arg \in {d, "start"}

C33_Outside(p, d) == ~(p.state = STATE_DIALOG /\ p.current_dialog_id = d)

C33_Stored == {dialogs[i][1] : i \in 1..Len(dialogs)}

C33_Left(w, u) ==
    ~w.raised
        => \A d \in C33_Stored :
              /\ C33_Outside(get_presence(w.presence, u), d)
              /\ \A from \in Users \ {u} : notify_decision(w, now, d, from) # "refresh"

C33_AfterLeave ==
    \A u \in Users :
        /\ C33_Left(callback(World(AllOk), now, u, <<"go", "dialogs">>), u)
        /\ C33_Left(callback(World(AllOk), now, u, <<"go", "recommendations">>), u)
        /\ C33_Left(start(World(AllOk), now, u), u)

C33_OutsideUnrefreshed ==
    \A u \in Users, d \in C33_Stored :
        C33_Outside(get_presence(presence, u), d)
            => \A from \in Users \ {u} :
                  notify_decision(World(AllOk), now, d, from) # "refresh"

C33_StaysOutside ==
    \A u \in Users, d \in C33_Stored :
        (C33_Outside(get_presence(presence, u), d) /\ ~C33_Opens(last', u, d))
            => C33_Outside(get_presence(presence', u), d)

C33_LeavingEndsRefresh ==
    [](C33_AfterLeave /\ C33_OutsideUnrefreshed) /\ [][C33_StaysOutside]_vars

\* a user who had opened the dialog has left it for a recommendation; the
\* presence row still names the dialog and is fresh, and a message of the
\* other participant now notifies
C33_Witness ==
    /\ last.op = "go"
    /\ last.arg = "recommendations"
    /\ LastOpen(Dialog1, get_dialog_users(dialogs, Dialog1), last.uid) # None
    /\ get_presence(presence, last.uid).current_dialog_id = Dialog1
    /\ Within(iso_to_dt(get_presence(presence, last.uid).updated_at), PRESENCE_ACTIVE_SEC)
    /\ \E from \in Users \ {last.uid} :
          notify_decision(World(AllOk), now, Dialog1, from) = "notify"

\* C34: an inactive target is eventually notified.  Silent refreshes alone
\* do not keep the target counted as present: when a message of the other
\* participant takes the silent refresh path, the target is counted as
\* present at a later message, sent less than PRESENCE_ACTIVE_SEC after this
\* one, only if the target would have been counted as present then without
\* this refresh.  (Otherwise a sender writing at intervals shorter than
\* PRESENCE_ACTIVE_SEC renews the target's presence with every message and
\* the target, taking no action at all, is never notified.)
C34_Later == now + PRESENCE_ACTIVE_SEC - 1

C34_Refreshed(d, from) ==
    /\ get_state(user_data[from]) = STATE_DIALOG
    /\ dict_get(user_data[from], "current_dialog_id", "") = d
    /\ notify_decision(World(AllOk), now, d, from) = "refresh"

C34_RefreshAloneExpires ==
    \A d \in DialogIds, from \in Users :
        (C34_Refreshed(d, from)
            /\ notify_decision(Notified(AllOk, d, from), C34_Later, d, from) = "refresh")
        => notify_decision(World(AllOk), C34_Later, d, from) = "refresh"

\* C35: at most three open dialogs per user.  After any sequence of dialog
\* creations no user is a participant of more than three open dialogs.
C35_Open(u) ==
    {i \in 1..Len(dialogs) : dialogs[i][5] = "active" /\ str(u) \in {dialogs[i][2], dialogs[i][3]}}

C35_AtMostThree == \A u \in Users : Cardinality(C35_Open(u)) <= 3

\* C36: at most one dialog per pair.  After any sequence of operations,
\* including repeated rec:start on the same recommendation, at most one row
\* of the dialogs sheet has a given unordered pair of users as participants.
C36_Pair(i) == {dialogs[i][2], dialogs[i][3]}

C36_OnePerPair ==
    \A i, j \in 1..Len(dialogs) : C36_Pair(i) = C36_Pair(j) => i = j

\* C38: skipping makes progress.  A user who presses skip on the
\* recommendation shown is not shown the candidate just skipped as the next
\* recommendation (so that, the candidates being finitely many, the empty
\* screen is reached after finitely many skips).
C38_Shown(w, u) == find_recommendation(w.users, u, w.user_data[u]["profile"])

C38_Next(w, u) ==
    get_state(w.user_data[u]) = STATE_RECOMMENDATION
        => C38_Shown(w, u) # C38_Shown(World(AllOk), u)

C38_SkipMoves ==
    \A u \in Users :
        (get_state(user_data[u]) = STATE_RECOMMENDATION /\ "profile" \in DOMAIN user_data[u])
            => C38_Next(callback(World(AllOk), now, u, <<"rec", "skip">>), u)

=============================================================================
